---------------------------- MODULE Spec2Model ----------------------------
(***************************************************************************)
(* A model of the March Madness win-probability engine                     *)
(* (static/marchMadness/MarchMadnessProbabilities.py).                     *)
(*                                                                         *)
(* Data representation                                                     *)
(*   team          a team id in TEAMS; None (0) is Python's None / absent  *)
(*   game          [team1, team2, winner], each a team id or None          *)
(*   bracket       [rounds |-> [1..6 -> Seq(game)], winner |-> team]; the  *)
(*                 code's 0-based game index i is element i+1 of a round   *)
(*   outcome       a sequence over {"0","1","X","D"} (a Python str)        *)
(*   dict          a sequence of [k, v] records in insertion order         *)
(*   float         an integer number of 1/Scale units (exact arithmetic)   *)
(*                                                                         *)
(* The bracket fixture holds the last two rounds of the tournament (round5 *)
(* with two games, round6 with one); round1..round4 are empty lists, which *)
(* every loop of the code skips (results_bracket.get(round_key, [])).      *)
(***************************************************************************)
EXTENDS Integers, Sequences, FiniteSets, TLC

None == 0

\* max_simulations=None: no simulation budget.
NoBudget == -1

\* DEFAULT_MAX_SCENARIOS
DEFAULT_MAX_SCENARIOS == 5

\* ROUND_KEYS = ['round1', ..., 'round6']; a round key is its number.
ROUND_KEYS == 1..6

\* The four teams of the fixture (the final four), by id.
TEAMS == 1..4

\* scoring-config.json of the fixture: scoreForRound / seedFactor for
\* rounds 1..6 (index 0 of the Python arrays is unused).
SCORE_FOR_ROUND == <<10, 20, 40, 80, 150, 130>>

SEED_FACTOR == <<1, 2, 3, 4, 5, 6>>

----------------------------------------------------------------------------
\* Generic helpers

RECURSIVE SumSeq(_)
SumSeq(s) == IF s = <<>> THEN 0 ELSE Head(s) + SumSeq(Tail(s))

RECURSIVE Flatten(_)
Flatten(ss) == IF ss = <<>> THEN <<>> ELSE Head(ss) \o Flatten(Tail(ss))

Min(a, b) == IF a < b THEN a ELSE b

Max(a, b) == IF a > b THEN a ELSE b

RECURSIVE Pow2(_)
Pow2(n) == IF n = 0 THEN 1 ELSE 2 * Pow2(n - 1)

\* The code's game_index (0-based) into a round list.
GameAt(bracket, round_key, game_index) == bracket.rounds[round_key][game_index + 1]

SetGame(bracket, round_key, game_index, game) ==
    [bracket EXCEPT !.rounds[round_key][game_index + 1] = game]

----------------------------------------------------------------------------
\* Team and game accessors

\* A list entry that is None or an empty dict: "not game" holds of it.
NoGame == [missing |-> TRUE]

\* get_winner_name: None when there is no game or the game has no winner.
get_winner_name(game) == IF game = NoGame THEN None ELSE game.winner

\* get_team_name: a team is identified by its name.
get_team_name(team) == team

\* get_team_seed: 0 for no team, else the seed from teams_data.
get_team_seed(team, teams_data) ==
    IF team = None THEN 0 ELSE teams_data.seed[team]

----------------------------------------------------------------------------
\* Bracket addressing

\* Mutant of get_parent_game_info: the slots are exchanged.
get_parent_game_info_other_slot(round_key, game_index) ==
    IF round_key >= 6 THEN <<>>
    ELSE <<round_key + 1, game_index \div 2, (game_index + 1) % 2>>

\* get_parent_game_info: <<parent_round, parent_index, slot>>, or <<>> for
\* the championship.
get_parent_game_info(round_key, game_index) ==
    IF round_key >= 6 THEN <<>>
    ELSE <<round_key + 1, game_index \div 2, game_index % 2>>

\* get_feeder_games: <<prev_round, feeder_1, feeder_2>>, or <<>> for round 1.
get_feeder_games(round_key, game_index) ==
    IF round_key = 1 THEN <<>>
    ELSE <<round_key - 1, game_index * 2, game_index * 2 + 1>>

\* find_remaining_games: every game without a winner, by round then index.
find_remaining_games(results_bracket) ==
    Flatten([r \in ROUND_KEYS |->
        LET results_round == results_bracket.rounds[r]
            RECURSIVE Scan(_)
            Scan(i) ==
                IF i >= Len(results_round) THEN <<>>
                ELSE (IF results_round[i + 1] # NoGame
                         /\ get_winner_name(results_round[i + 1]) = None
                      THEN << <<r, i>> >> ELSE <<>>) \o Scan(i + 1)
        IN Scan(0)])

----------------------------------------------------------------------------
\* Scoring

\* Mutant of compute_score_upset_bonus: the seed difference between winner
\* and loser, without the test that the winner was the underdog.
compute_score_upset_bonus_unguarded(result_game, round_num, teams_data, apply_seed_bonus) ==
    IF ~apply_seed_bonus THEN 0
    ELSE LET team1_seed == get_team_seed(result_game.team1, teams_data)
             team2_seed == get_team_seed(result_game.team2, teams_data)
             winner_seed == get_team_seed(result_game.winner, teams_data)
         IN IF team1_seed # 0 /\ team2_seed # 0 /\ winner_seed # 0
            THEN LET loser_seed == team1_seed + team2_seed - winner_seed
                 IN (winner_seed - loser_seed) * SEED_FACTOR[round_num]
            ELSE 0

\* compute_score, lines 735-745: the upset bonus of one correctly picked game.
compute_score_upset_bonus(result_game, round_num, teams_data, apply_seed_bonus) ==
    IF ~apply_seed_bonus THEN 0
    ELSE LET team1_seed == get_team_seed(result_game.team1, teams_data)
             team2_seed == get_team_seed(result_game.team2, teams_data)
             winner_seed == get_team_seed(result_game.winner, teams_data)
         IN IF team1_seed # 0 /\ team2_seed # 0 /\ winner_seed # 0
            THEN LET expected_winner_seed == Min(team1_seed, team2_seed)
                 IN IF winner_seed > expected_winner_seed
                    THEN (winner_seed - expected_winner_seed) * SEED_FACTOR[round_num]
                    ELSE 0
            ELSE 0

\* compute_score: [total_score, correct_picks, seed_bonus] of a picks bracket
\* against a results (or hypothetical) bracket, over every round and game.
compute_score(results_bracket, picks_bracket, teams_data, apply_seed_bonus) ==
    LET GameResult(round_num, i) ==
            LET results_round == results_bracket.rounds[round_num]
                picks_round == picks_bracket.rounds[round_num]
                zero == [total_score |-> 0, correct_picks |-> 0, seed_bonus |-> 0]
            IN IF i >= Len(picks_round) THEN zero
               ELSE LET result_winner == get_winner_name(results_round[i + 1])
                        pick_winner == get_winner_name(picks_round[i + 1])
                    IN IF result_winner = None \/ pick_winner = None THEN zero
                       ELSE IF result_winner = pick_winner
                            THEN LET upset_bonus == compute_score_upset_bonus(
                                         results_round[i + 1], round_num,
                                         teams_data, apply_seed_bonus)
                                 IN [total_score |-> SCORE_FOR_ROUND[round_num] + upset_bonus,
                                     correct_picks |-> 1,
                                     seed_bonus |-> upset_bonus]
                            ELSE zero
        PerGame == Flatten([round_num \in ROUND_KEYS |->
                       IF Len(results_bracket.rounds[round_num]) = 0
                          \/ Len(picks_bracket.rounds[round_num]) = 0
                       THEN <<>>
                       ELSE [k \in 1..Len(results_bracket.rounds[round_num]) |->
                                GameResult(round_num, k - 1)]])
    IN [total_score |-> SumSeq([k \in 1..Len(PerGame) |-> PerGame[k].total_score]),
        correct_picks |-> SumSeq([k \in 1..Len(PerGame) |-> PerGame[k].correct_picks]),
        seed_bonus |-> SumSeq([k \in 1..Len(PerGame) |-> PerGame[k].seed_bonus])]

\* Mutant of compute_score_delta_upset_bonus: team1 is taken to be the
\* favourite.
compute_score_delta_upset_bonus_team1(hypo_game, round_num, teams_data, apply_seed_bonus) ==
    IF ~apply_seed_bonus THEN 0
    ELSE LET team1_seed == get_team_seed(hypo_game.team1, teams_data)
             team2_seed == get_team_seed(hypo_game.team2, teams_data)
             winner_seed == get_team_seed(hypo_game.winner, teams_data)
         IN IF team1_seed # 0 /\ team2_seed # 0 /\ winner_seed # 0
            THEN LET expected_winner_seed == team1_seed
                 IN IF winner_seed > expected_winner_seed
                    THEN (winner_seed - expected_winner_seed) * SEED_FACTOR[round_num]
                    ELSE 0
            ELSE 0

\* Mutant of compute_score_delta_upset_bonus: the expected winner is the
\* team with the larger seed number.
compute_score_delta_upset_bonus_max(hypo_game, round_num, teams_data, apply_seed_bonus) ==
    IF ~apply_seed_bonus THEN 0
    ELSE LET team1_seed == get_team_seed(hypo_game.team1, teams_data)
             team2_seed == get_team_seed(hypo_game.team2, teams_data)
             winner_seed == get_team_seed(hypo_game.winner, teams_data)
         IN IF team1_seed # 0 /\ team2_seed # 0 /\ winner_seed # 0
            THEN LET expected_winner_seed == Max(team1_seed, team2_seed)
                 IN IF winner_seed > expected_winner_seed
                    THEN (winner_seed - expected_winner_seed) * SEED_FACTOR[round_num]
                    ELSE 0
            ELSE 0

\* compute_score_delta, lines 1064-1073: the upset bonus of one correctly
\* picked remaining game.
compute_score_delta_upset_bonus(hypo_game, round_num, teams_data, apply_seed_bonus) ==
    IF ~apply_seed_bonus THEN 0
    ELSE LET team1_seed == get_team_seed(hypo_game.team1, teams_data)
             team2_seed == get_team_seed(hypo_game.team2, teams_data)
             winner_seed == get_team_seed(hypo_game.winner, teams_data)
         IN IF team1_seed # 0 /\ team2_seed # 0 /\ winner_seed # 0
            THEN LET expected_winner_seed == Min(team1_seed, team2_seed)
                 IN IF winner_seed > expected_winner_seed
                    THEN (winner_seed - expected_winner_seed) * SEED_FACTOR[round_num]
                    ELSE 0
            ELSE 0

\* compute_score_delta: the points the remaining games add.
compute_score_delta(hypothetical_bracket, picks_bracket, teams_data, apply_seed_bonus, remaining_games) ==
    LET Delta(k) ==
            LET round_num == remaining_games[k][1]
                game_index == remaining_games[k][2]
                hypo_game == GameAt(hypothetical_bracket, round_num, game_index)
                picks_round == picks_bracket.rounds[round_num]
            IN IF game_index >= Len(picks_round) THEN 0
               ELSE LET hypo_winner == get_winner_name(hypo_game)
                        pick_winner == get_winner_name(picks_round[game_index + 1])
                    IN IF hypo_winner = None \/ pick_winner = None THEN 0
                       ELSE IF hypo_winner = pick_winner
                            THEN SCORE_FOR_ROUND[round_num]
                                 + compute_score_delta_upset_bonus(
                                       hypo_game, round_num, teams_data, apply_seed_bonus)
                            ELSE 0
    IN SumSeq([k \in 1..Len(remaining_games) |-> Delta(k)])

\* compute_base_scores: the locked-in score of every participant (the
\* fixture has no star bonuses).
compute_base_scores(results_bracket, name_to_bracket, teams_data, apply_seed_bonus) ==
    [name \in 1..Len(name_to_bracket) |->
        compute_score(results_bracket, name_to_bracket[name], teams_data,
                      apply_seed_bonus).total_score]

----------------------------------------------------------------------------
\* Bracket projection

\* create_hypothetical_bracket: complete a copy of the results bracket with
\* an outcome string; '1' makes team1 the winner, anything else team2.
create_hypothetical_bracket(results_bracket, remaining_games, outcome_string) ==
    LET RECURSIVE Apply(_, _)
        Apply(hypothetical, i) ==
            IF i >= Len(remaining_games) THEN hypothetical
            ELSE LET round_key == remaining_games[i + 1][1]
                     game_index == remaining_games[i + 1][2]
                     game == GameAt(hypothetical, round_key, game_index)
                 IN IF game.team1 = None \/ game.team2 = None
                    THEN Apply(hypothetical, i + 1)
                    ELSE LET winner == IF outcome_string[i + 1] = "1"
                                       THEN game.team1 ELSE game.team2
                             decided == SetGame(hypothetical, round_key, game_index,
                                                [game EXCEPT !.winner = winner])
                             parent_info == get_parent_game_info(round_key, game_index)
                         IN IF parent_info = <<>>
                            THEN Apply(decided, i + 1)
                            ELSE IF parent_info[2] >= Len(decided.rounds[parent_info[1]])
                                 THEN Apply(decided, i + 1)
                                 ELSE LET parent_game == GameAt(decided, parent_info[1],
                                                                parent_info[2])
                                      IN Apply(SetGame(decided, parent_info[1], parent_info[2],
                                                 IF parent_info[3] = 0
                                                 THEN [parent_game EXCEPT !.team1 = winner]
                                                 ELSE [parent_game EXCEPT !.team2 = winner]),
                                               i + 1)
        projected == Apply(results_bracket, 0)
    IN [projected EXCEPT !.winner = projected.rounds[6][1].winner]

\* Mutant of create_hypothetical_bracket_call: no copy is taken, the games
\* are decided in the results bracket itself.
create_hypothetical_bracket_in_place(results_bracket, remaining_games, outcome_string) ==
    [hypothetical |-> create_hypothetical_bracket(results_bracket, remaining_games,
                                                  outcome_string),
     results_bracket |-> create_hypothetical_bracket(results_bracket, remaining_games,
                                                     outcome_string)]

\* A call of create_hypothetical_bracket: the bracket it returns and the
\* results bracket the caller holds after the call.  Every assignment of
\* the function goes to hypothetical = copy.deepcopy(results_bracket).
create_hypothetical_bracket_call(results_bracket, remaining_games, outcome_string) ==
    [hypothetical |-> create_hypothetical_bracket(results_bracket, remaining_games,
                                                  outcome_string),
     results_bracket |-> results_bracket]

\* The loop of calculate_all_scores_batched and of
\* calculate_all_outcome_probabilities: one projection per outcome string,
\* one after the other, on the results bracket the caller holds.
project_in_sequence(results_bracket, remaining_games, outcome_strings) ==
    LET RECURSIVE Loop(_, _, _), Called(_, _, _)
        Loop(i, held, hypos) ==
            IF i > Len(outcome_strings)
            THEN [hypos |-> hypos, results_bracket |-> held]
            ELSE Called(i, hypos,
                        create_hypothetical_bracket_call(held, remaining_games,
                                                         outcome_strings[i]))
        Called(i, hypos, call) ==
            Loop(i + 1, call.results_bracket, Append(hypos, call.hypothetical))
    IN Loop(1, results_bracket, <<>>)

----------------------------------------------------------------------------
\* Probability model

\* Table values are multiples of 1/ProbDen.
ProbDen == 2

\* One float is an integer number of 1/Scale units: a product of the four
\* table values the fixture multiplies (champion, runner-up, two semifinal
\* losers) and a uniform weight 1/2^n (n <= 3) are both whole units.
Scale == ProbDen * ProbDen * ProbDen * ProbDen * 8

\* PROB_COLUMNS, by the round a column is used for.
PROB_COLUMNS == <<"prob_r32", "prob_r16", "prob_r8", "prob_r4", "prob_r2", "prob_win">>

\* get_team_probability: the table's value for the team and column (the
\* fixture's tables hold every column of every team).
get_team_probability(team_name, prob_column, teams_data) ==
    teams_data.prob[team_name][prob_column]

\* In the lookups below a probability is an integer number of 1/LookupUnit:
\* (1/2)^6, the smallest default, is one unit.
LookupUnit == 64

\* (0.5) ** r
HalfPower(r) == LookupUnit \div Pow2(r)

\* rounds_needed, lines 562-569; a column it does not hold counts 1 round.
rounds_needed(prob_column) ==
    IF \E k \in 1..Len(PROB_COLUMNS) : PROB_COLUMNS[k] = prob_column
    THEN CHOOSE k \in 1..Len(PROB_COLUMNS) : PROB_COLUMNS[k] = prob_column
    ELSE 1

\* get_seed_probability on the global SEED_PROBABILITIES (a dict from seed
\* to a dict from column to value, empty when the file was not loaded):
\* the value, or None.
get_seed_probability(seed_probabilities, seed, prob_column) ==
    IF DOMAIN seed_probabilities = {} THEN None
    ELSE IF seed \in DOMAIN seed_probabilities
            /\ prob_column \in DOMAIN seed_probabilities[seed]
         THEN seed_probabilities[seed][prob_column]
         ELSE None

\* Mutant of get_team_probability_call: the default is one power of 1/2
\* short (rounds_needed counted from 0).
get_team_probability_call_short(seed_probabilities, warned, team_name, prob_column, teams_data) ==
    LET warn_key == <<team_name, prob_column>>
        in_table == team_name \in DOMAIN teams_data
    IN IF in_table /\ prob_column \in DOMAIN teams_data[team_name].columns
       THEN [returned |-> teams_data[team_name].columns[prob_column],
             source |-> "table", warned |-> warned]
       ELSE IF /\ in_table
               /\ teams_data[team_name].seed # 0
               /\ get_seed_probability(seed_probabilities, teams_data[team_name].seed,
                                       prob_column) # None
            THEN [returned |-> get_seed_probability(seed_probabilities,
                                   teams_data[team_name].seed, prob_column),
                  source |-> "seed", warned |-> warned \cup {warn_key}]
            ELSE [returned |-> HalfPower(rounds_needed(prob_column) - 1),
                  source |-> "default", warned |-> warned \cup {warn_key}]

\* get_team_probability, with the globals it reads and writes as arguments:
\* SEED_PROBABILITIES and _warned_missing_prob_teams.  teams_data maps a
\* team name to [seed, columns]; seed 0 is a team without a seed, columns
\* maps the probability columns the team has to their values.
get_team_probability_call(seed_probabilities, warned, team_name, prob_column, teams_data) ==
    LET warn_key == <<team_name, prob_column>>
        in_table == team_name \in DOMAIN teams_data
    IN IF in_table /\ prob_column \in DOMAIN teams_data[team_name].columns
       THEN [returned |-> teams_data[team_name].columns[prob_column],
             source |-> "table", warned |-> warned]
       ELSE IF /\ in_table
               /\ teams_data[team_name].seed # 0
               /\ get_seed_probability(seed_probabilities, teams_data[team_name].seed,
                                       prob_column) # None
            THEN [returned |-> get_seed_probability(seed_probabilities,
                                   teams_data[team_name].seed, prob_column),
                  source |-> "seed", warned |-> warned \cup {warn_key}]
            ELSE [returned |-> HalfPower(rounds_needed(prob_column)),
                  source |-> "default", warned |-> warned \cup {warn_key}]

\* probability *= prob, for a probability in 1/Scale units and a table
\* value in 1/ProbDen units.
TimesProb(probability, prob) == (probability \div ProbDen) * prob

\* calculate_outcome_probability: P_win(champion) x P_r2(runner-up) x the
\* product over rounds 5..2 of the column value of every game's loser.
calculate_outcome_probability(hypothetical_bracket, teams_data) ==
    LET Loser(game) == IF game.winner = game.team1 THEN game.team2 ELSE game.team1
        winner_name == get_team_name(hypothetical_bracket.winner)
        p_winner == IF winner_name # None
                    THEN TimesProb(Scale, get_team_probability(winner_name, "prob_win", teams_data))
                    ELSE Scale
        RECURSIVE Games(_, _, _, _)
        Games(probability, games, k, column) ==
            IF k > Len(games) THEN probability
            ELSE LET loser == Loser(games[k])
                 IN Games(IF loser # None
                          THEN TimesProb(probability,
                                         get_team_probability(loser, column, teams_data))
                          ELSE probability,
                          games, k + 1, column)
        p_final == Games(p_winner, SubSeq(hypothetical_bracket.rounds[6], 1, 1), 1, "prob_r2")
        p_round5 == Games(p_final, hypothetical_bracket.rounds[5], 1, "prob_r4")
        p_round4 == Games(p_round5, hypothetical_bracket.rounds[4], 1, "prob_r8")
        p_round3 == Games(p_round4, hypothetical_bracket.rounds[3], 1, "prob_r16")
        p_round2 == Games(p_round3, hypothetical_bracket.rounds[2], 1, "prob_r32")
    IN p_round2

\* calculate_all_outcome_probabilities: one weight per outcome string.
calculate_all_outcome_probabilities(outcome_strings, results_bracket, remaining_games, teams_data, has_prob_data, base_probability) ==
    IF has_prob_data
    THEN [i \in 1..Len(outcome_strings) |->
            calculate_outcome_probability(
                create_hypothetical_bracket(results_bracket, remaining_games,
                                            outcome_strings[i]),
                teams_data)]
    ELSE [i \in 1..Len(outcome_strings) |-> base_probability]

----------------------------------------------------------------------------
\* Outcome generation

\* format(i, '0{n}b'): the n-digit binary form of i (more digits when i
\* does not fit, as Python's format gives).
RECURSIVE FormatBinary(_, _)
FormatBinary(i, n) ==
    IF n <= 0 /\ i = 0 THEN <<>>
    ELSE Append(FormatBinary(i \div 2, n - 1), IF i % 2 = 1 THEN "1" ELSE "0")

\* str(b) for a bit.
BitChar(b) == IF b = 1 THEN "1" ELSE "0"

\* random.randint(0, 1): the next bit of the random source.
randint(tape, pos) == tape[(pos % Len(tape)) + 1]

\* [random.randint(0, 1) for _ in range(n)], from position pos on.
RandomBits(tape, pos, n) == [k \in 1..n |-> randint(tape, pos + k - 1)]

\* Mutant of generate_all_outcome_strings: the enumeration starts at 1.
generate_all_outcome_strings_from_one(num_remaining, num_simulations) ==
    [k \in 1..num_simulations |-> FormatBinary(k, num_remaining)]

\* generate_all_outcome_strings, the exhaustive branch.
generate_all_outcome_strings(num_remaining, num_simulations) ==
    [k \in 1..num_simulations |-> FormatBinary(k - 1, num_remaining)]

\* generate_random_outcome.
generate_random_outcome(num_games, tape, pos) ==
    [k \in 1..num_games |-> BitChar(randint(tape, pos + k - 1))]

\* find_remaining_teams: the teams of the bracket that have not lost a game
\* (the code returns them as list(set): in no defined order).
find_remaining_teams(results_bracket) ==
    LET AllGames == Flatten([r \in ROUND_KEYS |-> results_bracket.rounds[r]])
        eliminated == UNION {
            IF AllGames[k].winner = None THEN {}
            ELSE {t \in {AllGames[k].team1, AllGames[k].team2} :
                     t # None /\ t # AllGames[k].winner} : k \in 1..Len(AllGames)}
    IN UNION {{t \in {AllGames[k].team1, AllGames[k].team2} :
                  t # None /\ t \notin eliminated} : k \in 1..Len(AllGames)}

\* Mutant of find_next_games: the feeder games are not looked at.
find_next_games_without_feeders(results_bracket) ==
    Flatten([r \in ROUND_KEYS |->
        LET results_round == results_bracket.rounds[r]
            IsNext(i) ==
                LET game == results_round[i + 1]
                IN /\ get_winner_name(game) = None
                   /\ game.team1 # None /\ game.team2 # None
            RECURSIVE Scan(_)
            Scan(i) ==
                IF i >= Len(results_round) THEN <<>>
                ELSE (IF IsNext(i) THEN << <<r, i>> >> ELSE <<>>) \o Scan(i + 1)
        IN Scan(0)])

\* find_next_games: the undecided games whose two teams are known (and, past
\* round 1, whose feeder games both have winners), as <<round, index>>.
find_next_games(results_bracket) ==
    Flatten([r \in ROUND_KEYS |->
        LET results_round == results_bracket.rounds[r]
            IsNext(i) ==
                LET game == results_round[i + 1]
                IN /\ get_winner_name(game) = None
                   /\ game.team1 # None /\ game.team2 # None
                   /\ \/ r = 1
                      \/ LET feeder_info == get_feeder_games(r, i)
                             prev_round == results_bracket.rounds[feeder_info[1]]
                         IN /\ feeder_info[2] < Len(prev_round)
                            /\ feeder_info[3] < Len(prev_round)
                            /\ get_winner_name(prev_round[feeder_info[2] + 1]) # None
                            /\ get_winner_name(prev_round[feeder_info[3] + 1]) # None
            RECURSIVE Scan(_)
            Scan(i) ==
                IF i >= Len(results_round) THEN <<>>
                ELSE (IF IsNext(i) THEN << <<r, i>> >> ELSE <<>>) \o Scan(i + 1)
        IN Scan(0)])

\* Mutant of ChampionOutcome: the team is forced to win only where it is
\* team1 (the elif on team2 is missing).
ChampionOutcome_team1_only(results_bracket, remaining_games, team_name, tape, pos) ==
    LET num_games == Len(remaining_games)
        RECURSIVE Force(_, _, _)
        Force(hypo, outcome_list, i) ==
            IF i >= num_games THEN outcome_list
            ELSE LET round_key == remaining_games[i + 1][1]
                     game_index == remaining_games[i + 1][2]
                     game == GameAt(hypo, round_key, game_index)
                     team1 == get_team_name(game.team1)
                     team2 == get_team_name(game.team2)
                     bit == IF team1 = team_name THEN 1
                            ELSE outcome_list[i + 1]
                     winner == IF team1 = team_name THEN game.team1
                               ELSE IF outcome_list[i + 1] = 1 THEN game.team1
                               ELSE game.team2
                     decided == SetGame(hypo, round_key, game_index,
                                        [game EXCEPT !.winner = winner])
                     parent_info == get_parent_game_info(round_key, game_index)
                     next_hypo ==
                         IF parent_info = <<>> THEN decided
                         ELSE IF parent_info[2] >= Len(decided.rounds[parent_info[1]])
                              THEN decided
                              ELSE LET parent_game == GameAt(decided, parent_info[1],
                                                             parent_info[2])
                                   IN SetGame(decided, parent_info[1], parent_info[2],
                                          IF parent_info[3] = 0
                                          THEN [parent_game EXCEPT !.team1 = winner]
                                          ELSE [parent_game EXCEPT !.team2 = winner])
                 IN Force(next_hypo, [outcome_list EXCEPT ![i + 1] = bit], i + 1)
        forced == Force(results_bracket, RandomBits(tape, pos, num_games), 0)
    IN [k \in 1..num_games |-> BitChar(forced[k])]

\* generate_champion_stratified_outcomes, the body of the inner loop: one
\* outcome in which team_name wins every game it plays, the other games
\* drawn from the random source.
ChampionOutcome(results_bracket, remaining_games, team_name, tape, pos) ==
    LET num_games == Len(remaining_games)
        RECURSIVE Force(_, _, _)
        Force(hypo, outcome_list, i) ==
            IF i >= num_games THEN outcome_list
            ELSE LET round_key == remaining_games[i + 1][1]
                     game_index == remaining_games[i + 1][2]
                     game == GameAt(hypo, round_key, game_index)
                     team1 == get_team_name(game.team1)
                     team2 == get_team_name(game.team2)
                     bit == IF team1 = team_name THEN 1
                            ELSE IF team2 = team_name THEN 0
                            ELSE outcome_list[i + 1]
                     winner == IF team1 = team_name THEN game.team1
                               ELSE IF team2 = team_name THEN game.team2
                               ELSE IF outcome_list[i + 1] = 1 THEN game.team1
                               ELSE game.team2
                     decided == SetGame(hypo, round_key, game_index,
                                        [game EXCEPT !.winner = winner])
                     parent_info == get_parent_game_info(round_key, game_index)
                     next_hypo ==
                         IF parent_info = <<>> THEN decided
                         ELSE IF parent_info[2] >= Len(decided.rounds[parent_info[1]])
                              THEN decided
                              ELSE LET parent_game == GameAt(decided, parent_info[1],
                                                             parent_info[2])
                                   IN SetGame(decided, parent_info[1], parent_info[2],
                                          IF parent_info[3] = 0
                                          THEN [parent_game EXCEPT !.team1 = winner]
                                          ELSE [parent_game EXCEPT !.team2 = winner])
                 IN Force(next_hypo, [outcome_list EXCEPT ![i + 1] = bit], i + 1)
        forced == Force(results_bracket, RandomBits(tape, pos, num_games), 0)
    IN [k \in 1..num_games |-> BitChar(forced[k])]

\* generate_champion_stratified_outcomes: num_per_team outcomes for every
\* remaining team, in the order of the list; [outcomes, pos].
generate_champion_stratified_outcomes(results_bracket, remaining_games, remaining_teams, num_per_team, tape, pos) ==
    LET num_games == Len(remaining_games)
        total == Len(remaining_teams) * num_per_team
    IN [outcomes |-> [k \in 1..total |->
                         ChampionOutcome(results_bracket, remaining_games,
                                         remaining_teams[((k - 1) \div num_per_team) + 1],
                                         tape, pos + (k - 1) * num_games)],
        pos |-> pos + total * num_games]

\* list.index, 0-based; -1 when absent.
IndexOf(seq, x) ==
    IF \E k \in 1..Len(seq) : seq[k] = x
    THEN (CHOOSE k \in 1..Len(seq) : seq[k] = x /\ \A j \in 1..(k - 1) : seq[j] # x) - 1
    ELSE -1

\* Mutant of generate_next_game_stratified_outcomes: the random draw is not
\* overridden at the next games.
generate_next_game_stratified_outcomes_no_override(results_bracket, remaining_games, next_games, num_outcomes, tape, pos) ==
    LET num_next == Len(next_games)
        num_remaining == Len(remaining_games)
        found == SelectSeq(next_games, LAMBDA ng : IndexOf(remaining_games, ng) >= 0)
        next_game_indices == [k \in 1..Len(found) |-> IndexOf(remaining_games, found[k])]
        total_next_combos == Pow2(num_next)
        outcomes_per_combo == Max(1, num_outcomes \div total_next_combos)
        Override(draw, next_game_bits) ==
            [p \in 1..num_remaining |-> BitChar(draw[p])]
        count == IF total_next_combos <= num_outcomes
                 THEN total_next_combos * outcomes_per_combo ELSE num_outcomes
    IN [outcomes |->
           [k \in 1..count |->
               IF total_next_combos <= num_outcomes
               THEN Override(RandomBits(tape, pos + (k - 1) * num_remaining, num_remaining),
                             FormatBinary((k - 1) \div outcomes_per_combo, num_next))
               ELSE generate_random_outcome(num_remaining, tape,
                                            pos + (k - 1) * num_remaining)],
        pos |-> pos + count * num_remaining]

\* generate_next_game_stratified_outcomes; [outcomes, pos].
generate_next_game_stratified_outcomes(results_bracket, remaining_games, next_games, num_outcomes, tape, pos) ==
    LET num_next == Len(next_games)
        num_remaining == Len(remaining_games)
        found == SelectSeq(next_games, LAMBDA ng : IndexOf(remaining_games, ng) >= 0)
        next_game_indices == [k \in 1..Len(found) |-> IndexOf(remaining_games, found[k])]
        total_next_combos == Pow2(num_next)
        outcomes_per_combo == Max(1, num_outcomes \div total_next_combos)
        Override(draw, next_game_bits) ==
            [p \in 1..num_remaining |->
                IF \E i \in 1..Len(next_game_indices) : next_game_indices[i] = p - 1
                THEN next_game_bits[CHOOSE i \in 1..Len(next_game_indices) :
                        /\ next_game_indices[i] = p - 1
                        /\ \A j \in (i + 1)..Len(next_game_indices) :
                              next_game_indices[j] # p - 1]
                ELSE BitChar(draw[p])]
        count == IF total_next_combos <= num_outcomes
                 THEN total_next_combos * outcomes_per_combo ELSE num_outcomes
    IN [outcomes |->
           [k \in 1..count |->
               IF total_next_combos <= num_outcomes
               THEN Override(RandomBits(tape, pos + (k - 1) * num_remaining, num_remaining),
                             FormatBinary((k - 1) \div outcomes_per_combo, num_next))
               ELSE generate_random_outcome(num_remaining, tape,
                                            pos + (k - 1) * num_remaining)],
        pos |-> pos + count * num_remaining]

\* calculate_win_probabilities, lines 2287-2335: the stratification plan of a
\* Monte Carlo run.
stratification_params(num_simulations, num_next_games, num_remaining_teams) ==
    LET total_next_combos == Pow2(num_next_games)
        min_next_stratified == (num_simulations * 25) \div 100
        plan == IF total_next_combos < min_next_stratified
                THEN [num_next_stratified |-> min_next_stratified,
                      num_champion_stratified |-> min_next_stratified \div 2,
                      num_random |-> num_simulations - min_next_stratified
                                     - (min_next_stratified \div 2)]
                ELSE IF total_next_combos < 2 * num_simulations
                THEN [num_next_stratified |-> total_next_combos,
                      num_champion_stratified |-> total_next_combos \div 2,
                      num_random |-> Max(0, num_simulations - total_next_combos
                                            - (total_next_combos \div 2))]
                ELSE [num_next_stratified |-> (num_simulations * 25) \div 100,
                      num_champion_stratified |-> (num_simulations * 15) \div 100,
                      num_random |-> num_simulations
                                     - ((num_simulations * 25) \div 100)
                                     - ((num_simulations * 15) \div 100)]
    IN [num_champion_stratified |-> plan.num_champion_stratified,
        num_next_stratified |-> plan.num_next_stratified,
        num_random |-> plan.num_random,
        num_per_team |-> IF num_remaining_teams > 0
                         THEN Max(1, plan.num_champion_stratified \div num_remaining_teams)
                         ELSE 0]

\* calculate_win_probabilities, lines 2371-2402 (Step 1): the outcome
\* strings of a run.
generate_outcome_strings(results_bracket, remaining_games, max_simulations, remaining_teams, tape) ==
    LET num_remaining == Len(remaining_games)
        total_possible == Pow2(num_remaining)
        use_monte_carlo == max_simulations # NoBudget /\ total_possible > max_simulations
        next_games_list == find_next_games(results_bracket)
        params == stratification_params(max_simulations, Len(next_games_list),
                                        Len(remaining_teams))
        champion == IF params.num_per_team > 0
                    THEN generate_champion_stratified_outcomes(
                             results_bracket, remaining_games, remaining_teams,
                             params.num_per_team, tape, 0)
                    ELSE [outcomes |-> <<>>, pos |-> 0]
        next_game == IF params.num_next_stratified > 0
                     THEN generate_next_game_stratified_outcomes(
                              results_bracket, remaining_games, next_games_list,
                              params.num_next_stratified, tape, champion.pos)
                     ELSE [outcomes |-> <<>>, pos |-> champion.pos]
        random_outcomes == [k \in 1..params.num_random |->
                               generate_random_outcome(num_remaining, tape,
                                   next_game.pos + (k - 1) * num_remaining)]
    IN IF use_monte_carlo
       THEN champion.outcomes \o next_game.outcomes \o random_outcomes
       ELSE generate_all_outcome_strings(num_remaining, total_possible)

----------------------------------------------------------------------------
\* Ordered dictionaries (Python dicts keep insertion order)

DictKeys(d) == [k \in 1..Len(d) |-> d[k].k]

DictHas(d, key) == \E k \in 1..Len(d) : d[k].k = key

DictGet(d, key) == d[CHOOSE k \in 1..Len(d) : d[k].k = key].v

\* d[key] = value: in place when the key exists, else appended.
DictSet(d, key, value) ==
    IF DictHas(d, key)
    THEN [k \in 1..Len(d) |-> IF d[k].k = key THEN [k |-> key, v |-> value] ELSE d[k]]
    ELSE Append(d, [k |-> key, v |-> value])

\* d[key] += value, or d[key] = value when the key is new.
DictAdd(d, key, value) ==
    DictSet(d, key, IF DictHas(d, key) THEN DictGet(d, key) + value ELSE value)

DictValues(d) == [k \in 1..Len(d) |-> d[k].v]

----------------------------------------------------------------------------
\* Scoring of all outcomes and ranking

\* calculate_all_scores_batched: all_scores[name][i] = base score + delta
\* of outcome i.
calculate_all_scores_batched(outcome_strings, results_bracket, remaining_games, name_to_bracket, teams_data, apply_seed_bonus, base_scores) ==
    [name \in 1..Len(name_to_bracket) |->
        [i \in 1..Len(outcome_strings) |->
            base_scores[name]
            + compute_score_delta(
                  create_hypothetical_bracket(results_bracket, remaining_games,
                                              outcome_strings[i]),
                  name_to_bracket[name], teams_data, apply_seed_bonus, remaining_games)]]

\* Mutant of SortedByScoreDesc: an ascending sort that is then reversed, which
\* reverses the order of equal scores.
SortedAscendingReversed(scores) ==
    LET n == Len(scores)
        Rank(k) == Cardinality({j \in 1..n : scores[j].score > scores[k].score})
                   + Cardinality({j \in (k + 1)..n : scores[j].score = scores[k].score})
                   + 1
    IN [r \in 1..n |-> scores[CHOOSE k \in 1..n : Rank(k) = r]]

\* sorted(scores, key=score, reverse=True): Python's sort is stable, also
\* with reverse=True, so equal scores keep their order in the list.
SortedByScoreDesc(scores) ==
    LET n == Len(scores)
        Rank(k) == Cardinality({j \in 1..n : scores[j].score > scores[k].score})
                   + Cardinality({j \in 1..(k - 1) : scores[j].score = scores[k].score})
                   + 1
    IN [r \in 1..n |-> scores[CHOOSE k \in 1..n : Rank(k) = r]]

\* determine_winners_and_losers: per outcome the ranking, its first entry
\* (winner) and its last entry (loser).
determine_winners_and_losers(all_scores, num_outcomes) ==
    LET participants == [k \in 1..Len(all_scores) |-> k]
        Sorted(i) == SortedByScoreDesc(
                         [k \in 1..Len(participants) |->
                             [name |-> participants[k],
                              score |-> all_scores[participants[k]][i]]])
    IN [winners |-> [i \in 1..num_outcomes |-> Sorted(i)[1].name],
        losers |-> [i \in 1..num_outcomes |-> Sorted(i)[Len(participants)].name],
        all_sorted_scores |-> [i \in 1..num_outcomes |-> Sorted(i)]]

----------------------------------------------------------------------------
\* Result aggregation

\* Mutant of accumulate_one: the raw maps take the mass of the last entry
\* of an outcome string (= for += at lines 2147 and 2155).
accumulate_one_overwriting(acc, outcome, prob, winner, loser, sorted_scores) ==
    [total_probability_sum |-> acc.total_probability_sum + prob,
     win_probability_sum |->
         [acc.win_probability_sum EXCEPT ![winner] = @ + prob],
     lose_probability_sum |->
         [acc.lose_probability_sum EXCEPT ![loser] = @ + prob],
     place_probability_sum |->
         [name \in DOMAIN acc.place_probability_sum |->
             acc.place_probability_sum[name]
             + SumSeq([place \in 1..Len(sorted_scores) |->
                          IF sorted_scores[place].name = name THEN place * prob ELSE 0])],
     raw_winning_outcomes |->
         [acc.raw_winning_outcomes EXCEPT ![winner] = DictSet(@, outcome, prob)],
     raw_losing_outcomes |->
         [acc.raw_losing_outcomes EXCEPT ![loser] = DictSet(@, outcome, prob)]]

\* Mutant of accumulate_one: the winner's mass is assigned, not added
\* (= for +=).
accumulate_one_assigning(acc, outcome, prob, winner, loser, sorted_scores) ==
    [total_probability_sum |-> acc.total_probability_sum + prob,
     win_probability_sum |->
         [acc.win_probability_sum EXCEPT ![winner] = prob],
     lose_probability_sum |->
         [acc.lose_probability_sum EXCEPT ![loser] = @ + prob],
     place_probability_sum |->
         [name \in DOMAIN acc.place_probability_sum |->
             acc.place_probability_sum[name]
             + SumSeq([place \in 1..Len(sorted_scores) |->
                          IF sorted_scores[place].name = name THEN place * prob ELSE 0])],
     raw_winning_outcomes |->
         [acc.raw_winning_outcomes EXCEPT ![winner] = DictAdd(@, outcome, prob)],
     raw_losing_outcomes |->
         [acc.raw_losing_outcomes EXCEPT ![loser] = DictAdd(@, outcome, prob)]]

\* accumulate_results, the loop body for outcome i.
accumulate_one(acc, outcome, prob, winner, loser, sorted_scores) ==
    [total_probability_sum |-> acc.total_probability_sum + prob,
     win_probability_sum |->
         [acc.win_probability_sum EXCEPT ![winner] = @ + prob],
     lose_probability_sum |->
         [acc.lose_probability_sum EXCEPT ![loser] = @ + prob],
     place_probability_sum |->
         [name \in DOMAIN acc.place_probability_sum |->
             acc.place_probability_sum[name]
             + SumSeq([place \in 1..Len(sorted_scores) |->
                          IF sorted_scores[place].name = name THEN place * prob ELSE 0])],
     raw_winning_outcomes |->
         [acc.raw_winning_outcomes EXCEPT ![winner] = DictAdd(@, outcome, prob)],
     raw_losing_outcomes |->
         [acc.raw_losing_outcomes EXCEPT ![loser] = DictAdd(@, outcome, prob)]]

\* accumulate_results: the sums over all outcomes, in list order.
accumulate_results(outcome_strings, outcome_probabilities, winners, losers, all_sorted_scores, participants) ==
    LET names == {participants[k] : k \in 1..Len(participants)}
        zero == [total_probability_sum |-> 0,
                 win_probability_sum |-> [name \in names |-> 0],
                 lose_probability_sum |-> [name \in names |-> 0],
                 place_probability_sum |-> [name \in names |-> 0],
                 raw_winning_outcomes |-> [name \in names |-> <<>>],
                 raw_losing_outcomes |-> [name \in names |-> <<>>]]
        count == Min(Len(outcome_strings), Len(outcome_probabilities))
        RECURSIVE Loop(_, _)
        Loop(acc, i) ==
            IF i > count THEN acc
            ELSE Loop(accumulate_one(acc, outcome_strings[i], outcome_probabilities[i],
                                     winners[i], losers[i], all_sorted_scores[i]),
                      i + 1)
    IN Loop(zero, 1)

\* A float quotient num / den, kept exact.
Ratio(num, den) == [num |-> num, den |-> den]

\* calculate_win_probabilities, lines 2478-2503: every mass is multiplied by
\* 1 / total_probability_sum, or by 1.0 when that sum is not positive.
normalize(acc) ==
    LET den == IF acc.total_probability_sum > 0 THEN acc.total_probability_sum ELSE Scale
    IN [win_probabilities |->
            [name \in DOMAIN acc.win_probability_sum |->
                Ratio(acc.win_probability_sum[name], den)],
        lose_probabilities |->
            [name \in DOMAIN acc.lose_probability_sum |->
                Ratio(acc.lose_probability_sum[name], den)],
        average_places |->
            [name \in DOMAIN acc.place_probability_sum |->
                Ratio(acc.place_probability_sum[name], den)]]

\* Mutant of tournament_over_result: the places count from 0 (enumerate's
\* index without the + 1).
tournament_over_result_zero_based(results_bracket, name_to_bracket, teams_data, apply_seed_bonus) ==
    LET scores == [name \in 1..Len(name_to_bracket) |->
                      [name |-> name,
                       score |-> compute_score(results_bracket, name_to_bracket[name],
                                               teams_data, apply_seed_bonus).total_score]]
        sorted_scores == SortedByScoreDesc(scores)
        winner == sorted_scores[1].name
        loser == sorted_scores[Len(sorted_scores)].name
    IN [win_probabilities |->
            [name \in 1..Len(name_to_bracket) |->
                Ratio(IF name = winner THEN 1 ELSE 0, 1)],
        lose_probabilities |->
            [name \in 1..Len(name_to_bracket) |->
                Ratio(IF name = loser THEN 1 ELSE 0, 1)],
        average_places |->
            [name \in 1..Len(name_to_bracket) |->
                Ratio((CHOOSE i \in 1..Len(sorted_scores) : sorted_scores[i].name = name) - 1,
                      1)]]

\* calculate_win_probabilities, lines 2249-2264: the tournament is over.
tournament_over_result(results_bracket, name_to_bracket, teams_data, apply_seed_bonus) ==
    LET scores == [name \in 1..Len(name_to_bracket) |->
                      [name |-> name,
                       score |-> compute_score(results_bracket, name_to_bracket[name],
                                               teams_data, apply_seed_bonus).total_score]]
        sorted_scores == SortedByScoreDesc(scores)
        winner == sorted_scores[1].name
        loser == sorted_scores[Len(sorted_scores)].name
    IN [win_probabilities |->
            [name \in 1..Len(name_to_bracket) |->
                Ratio(IF name = winner THEN 1 ELSE 0, 1)],
        lose_probabilities |->
            [name \in 1..Len(name_to_bracket) |->
                Ratio(IF name = loser THEN 1 ELSE 0, 1)],
        average_places |->
            [name \in 1..Len(name_to_bracket) |->
                Ratio(CHOOSE i \in 1..Len(sorted_scores) : sorted_scores[i].name = name, 1)]]

----------------------------------------------------------------------------
\* Outcome merging

\* Positions are 0-based, as in the code; NoPos is can_merge_outcomes' None.
NoPos == -1

CharAt(outcome, pos) == outcome[pos + 1]

\* can_merge_outcomes: the one position where the two outcomes differ, when
\* they differ at exactly one position and neither holds 'X' there.
can_merge_outcomes(outcome1, outcome2) ==
    IF Len(outcome1) # Len(outcome2) THEN NoPos
    ELSE LET RECURSIVE Scan(_, _)
             Scan(i, diff_positions) ==
                 IF i >= Len(outcome1)
                 THEN (IF Len(diff_positions) = 1 THEN diff_positions[1] ELSE NoPos)
                 ELSE IF CharAt(outcome1, i) # CharAt(outcome2, i)
                      THEN IF CharAt(outcome1, i) = "X" \/ CharAt(outcome2, i) = "X"
                           THEN NoPos
                           ELSE IF Len(diff_positions) + 1 > 1 THEN NoPos
                                ELSE Scan(i + 1, Append(diff_positions, i))
                      ELSE Scan(i + 1, diff_positions)
         IN Scan(0, <<>>)

\* Mutant of merge_two_outcomes: the first outcome is kept as it is.
merge_two_outcomes_first(outcome1, outcome2, diff_pos) == outcome1

\* merge_two_outcomes: outcome1 with 'X' at diff_pos.
merge_two_outcomes(outcome1, outcome2, diff_pos) ==
    [outcome1 EXCEPT ![diff_pos + 1] = "X"]

\* get_merge_key: the outcome with 'X' at pos.
get_merge_key(outcome, pos) == [outcome EXCEPT ![pos + 1] = "X"]

\* merge_outcomes, lines 1459-1469: the positions of every round, by round;
\* without a remaining-games list every position counts as round 1.
positions_by_round(outcome_length, remaining_games, has_remaining_games) ==
    IF ~has_remaining_games
    THEN [round_num \in {1} |-> [k \in 1..outcome_length |-> k - 1]]
    ELSE [round_num \in {remaining_games[k][1] : k \in 1..Len(remaining_games)} |->
             LET RECURSIVE Scan(_)
                 Scan(pos) ==
                     IF pos >= Len(remaining_games) THEN <<>>
                     ELSE (IF remaining_games[pos + 1][1] = round_num
                           THEN <<pos>> ELSE <<>>) \o Scan(pos + 1)
             IN Scan(0)]

\* merge_outcomes, lines 1487-1498: the groups of one pass, in the order the
\* merge loop visits them: for every position of the round, for every merge
\* key in insertion order, the outcomes sharing it.
merge_groups(current_outcomes, positions) ==
    LET outcomes == DictKeys(current_outcomes)
        Concrete(pos) == SelectSeq(outcomes, LAMBDA o : CharAt(o, pos) \notin {"X", "D"})
        RECURSIVE KeysOf(_, _, _)
        KeysOf(os, pos, seen) ==
            IF os = <<>> THEN <<>>
            ELSE LET key == get_merge_key(Head(os), pos)
                 IN IF key \in seen THEN KeysOf(Tail(os), pos, seen)
                    ELSE <<key>> \o KeysOf(Tail(os), pos, seen \cup {key})
        GroupsAt(pos) ==
            LET keys == KeysOf(Concrete(pos), pos, {})
            IN [k \in 1..Len(keys) |->
                   [pos |-> pos,
                    members |-> SelectSeq(Concrete(pos),
                                    LAMBDA o : get_merge_key(o, pos) = keys[k])]]
    IN Flatten([p \in 1..Len(positions) |-> GroupsAt(positions[p])])

\* Mutant of merge_prob: the second mass is read with the first outcome's key.
merge_prob_first_twice(current_outcomes, out1, out2) ==
    << IF DictHas(current_outcomes, out1) THEN DictGet(current_outcomes, out1) ELSE 0,
       IF DictHas(current_outcomes, out1) THEN DictGet(current_outcomes, out1) ELSE 0 >>

\* merge_outcomes, lines 1527-1528: <<prob1, prob2>>, the masses of the two
\* outcomes that merge (current_outcomes.get(out, 0)).
merge_prob(current_outcomes, out1, out2) ==
    << IF DictHas(current_outcomes, out1) THEN DictGet(current_outcomes, out1) ELSE 0,
       IF DictHas(current_outcomes, out2) THEN DictGet(current_outcomes, out2) ELSE 0 >>

\* merge_outcomes, lines 1508-1549: the merge loop over one group's members.
\* st = [new_outcomes, merged_away, merges]; merges lists every merge that
\* is performed as <<out1, out2, pos>>.
merge_group(current_outcomes, pos, members, st0) ==
    LET RECURSIVE Partner(_, _, _)
        Partner(out1, j, st) ==
            IF j > Len(members) THEN 0
            ELSE IF members[j] \in st.merged_away THEN Partner(out1, j + 1, st)
                 ELSE IF can_merge_outcomes(out1, members[j]) = pos THEN j
                      ELSE Partner(out1, j + 1, st)
        Store(out1, out2, st, merged, probs, in_new, replaces) ==
            [new_outcomes |->
                 IF in_new THEN DictAdd(st.new_outcomes, merged, probs[1] + probs[2])
                 ELSE IF replaces
                      THEN DictSet(st.new_outcomes, merged,
                                   DictGet(current_outcomes, merged) + probs[1] + probs[2])
                      ELSE DictSet(st.new_outcomes, merged, probs[1] + probs[2]),
             merged_away |-> st.merged_away \cup {out1, out2}
                             \cup (IF replaces THEN {merged} ELSE {}),
             merges |-> Append(st.merges, <<out1, out2, pos>>)]
        Merged(out1, out2, st, merged) ==
            Store(out1, out2, st, merged, merge_prob(current_outcomes, out1, out2),
                  DictHas(st.new_outcomes, merged),
                  ~DictHas(st.new_outcomes, merged) /\ DictHas(current_outcomes, merged)
                      /\ merged \notin st.merged_away)
        Merge(out1, out2, st) ==
            Merged(out1, out2, st, merge_two_outcomes(out1, out2, pos))
        RECURSIVE Loop(_, _), Found(_, _, _)
        Loop(i, st) ==
            IF i >= Len(members) THEN st
            ELSE IF members[i] \in st.merged_away THEN Loop(i + 1, st)
                 ELSE Found(i, st, Partner(members[i], i + 1, st))
        Found(i, st, j) ==
            IF j = 0 THEN Loop(i + 1, st)
            ELSE Loop(i + 1, Merge(members[i], members[j], st))
    IN IF Len(members) < 2 THEN st0 ELSE Loop(1, st0)

\* merge_outcomes, lines 1481-1562: one pass of the while loop over the
\* positions of a round; [outcomes, merges].
merge_pass(current_outcomes, positions) ==
    LET RECURSIVE Each(_, _, _)
        Each(groups, g, st) ==
            IF g > Len(groups) THEN st
            ELSE Each(groups, g + 1, merge_group(current_outcomes, groups[g].pos,
                                                 groups[g].members, st))
        RECURSIVE AddNew(_, _, _)
        AddNew(done, updated_outcomes, n) ==
            IF n > Len(done.new_outcomes) THEN updated_outcomes
            ELSE AddNew(done, DictAdd(updated_outcomes, done.new_outcomes[n].k,
                                      done.new_outcomes[n].v), n + 1)
        Update(done) ==
            [outcomes |-> AddNew(done,
                              SelectSeq(current_outcomes,
                                        LAMBDA e : e.k \notin done.merged_away), 1),
             merges |-> done.merges]
    IN Update(Each(merge_groups(current_outcomes, positions), 1,
                   [new_outcomes |-> <<>>, merged_away |-> {}, merges |-> <<>>]))

\* Mutant of merge_outcomes_log: one pass per round, without the
\* "while changed" loop.
merge_outcomes_single_pass(outcomes_with_probs, remaining_games, has_remaining_games) ==
    IF Len(outcomes_with_probs) <= 1
    THEN [outcomes |-> outcomes_with_probs, merges |-> <<>>]
    ELSE LET by_round == positions_by_round(Len(outcomes_with_probs[1].k),
                                            remaining_games, has_remaining_games)
             RECURSIVE Round(_, _, _), After(_, _, _)
             Round(round_num, current_outcomes, merges) ==
                 IF round_num > 6
                 THEN [outcomes |-> current_outcomes, merges |-> merges]
                 ELSE IF round_num \notin DOMAIN by_round
                      THEN Round(round_num + 1, current_outcomes, merges)
                      ELSE After(round_num, merges,
                                 merge_pass(current_outcomes, by_round[round_num]))
             After(round_num, merges, pass) ==
                 Round(round_num + 1, pass.outcomes, merges \o pass.merges)
         IN Round(1, outcomes_with_probs, <<>>)

\* merge_outcomes: rounds in increasing order, every round merged until a
\* pass performs no merge; [outcomes, merges].
merge_outcomes_log(outcomes_with_probs, remaining_games, has_remaining_games) ==
    IF Len(outcomes_with_probs) <= 1
    THEN [outcomes |-> outcomes_with_probs, merges |-> <<>>]
    ELSE LET by_round == positions_by_round(Len(outcomes_with_probs[1].k),
                                            remaining_games, has_remaining_games)
             RECURSIVE Round(_, _, _), After(_, _, _)
             Round(round_num, current_outcomes, merges) ==
                 IF round_num > 6
                 THEN [outcomes |-> current_outcomes, merges |-> merges]
                 ELSE IF round_num \notin DOMAIN by_round
                      THEN Round(round_num + 1, current_outcomes, merges)
                      ELSE After(round_num, merges,
                                 merge_pass(current_outcomes, by_round[round_num]))
             After(round_num, merges, pass) ==
                 IF pass.merges = <<>>
                 THEN Round(round_num + 1, pass.outcomes, merges)
                 ELSE Round(round_num, pass.outcomes, merges \o pass.merges)
         IN Round(1, outcomes_with_probs, <<>>)

\* merge_outcomes: the merged dict.
merge_outcomes(outcomes_with_probs, remaining_games, has_remaining_games) ==
    merge_outcomes_log(outcomes_with_probs, remaining_games, has_remaining_games).outcomes

----------------------------------------------------------------------------
\* MergeCandidateTracker

\* Python's order on outcome characters and strings.
CharOrd(c) == CASE c = "0" -> 48 [] c = "1" -> 49 [] c = "D" -> 68 [] c = "X" -> 88

RECURSIVE StrLess(_, _)
StrLess(a, b) ==
    IF a = <<>> THEN b # <<>>
    ELSE IF b = <<>> THEN FALSE
         ELSE IF Head(a) # Head(b) THEN CharOrd(Head(a)) < CharOrd(Head(b))
              ELSE StrLess(Tail(a), Tail(b))

\* The order of heap entries (-combined_prob, pos, out1, out2).
EntryLess(a, b) ==
    IF a.neg_prob # b.neg_prob THEN a.neg_prob < b.neg_prob
    ELSE IF a.pos # b.pos THEN a.pos < b.pos
         ELSE IF a.out1 # b.out1 THEN StrLess(a.out1, b.out1)
              ELSE StrLess(a.out2, b.out2)

\* Mutant of tracker_group: the outcomes are grouped by position only, not
\* by merge key.
tracker_group_by_position(groups, pos, key) ==
    {m[2] : m \in {g \in groups : g[1] = pos}}

\* self.groups[pos][key]; groups is the set of <<pos, outcome>> memberships,
\* a group that becomes empty does not exist.
tracker_group(groups, pos, key) ==
    {m[2] : m \in {g \in groups : g[1] = pos /\ get_merge_key(g[2], pos) = key}}

\* _add_outcome_to_groups
add_outcome_to_groups(groups, outcome) ==
    groups \cup {<<pos, outcome>> : pos \in {q \in 0..(Len(outcome) - 1) :
                                              CharAt(outcome, q) # "X"}}

\* _remove_outcome_from_groups
remove_outcome_from_groups(groups, outcome) ==
    groups \ {<<pos, outcome>> : pos \in {q \in 0..(Len(outcome) - 1) :
                                            CharAt(outcome, q) # "X"}}

\* _add_candidate_from_group: the heap after the push, if any.
add_candidate_from_group(tracker, pos, members) ==
    IF Cardinality(members) # 2 THEN tracker.heap
    ELSE LET out1 == CHOOSE a \in members : \A b \in members : a = b \/ StrLess(a, b)
             out2 == CHOOSE b \in members : b # out1
         IN IF out1 \notin tracker.valid_outcomes \/ out2 \notin tracker.valid_outcomes
            THEN tracker.heap
            ELSE tracker.heap \cup
                     {[neg_prob |-> 0 - (DictGet(tracker.probabilities, out1)
                                         + DictGet(tracker.probabilities, out2)),
                       pos |-> pos, out1 |-> out1, out2 |-> out2]}

\* _find_all_merge_candidates, _check_and_add_candidates_for_outcome: a
\* candidate for every listed <<pos, key>> whose group has two members.
add_candidates(tracker, pos_keys) ==
    LET RECURSIVE Each(_, _)
        Each(todo, t) ==
            IF todo = {} THEN t
            ELSE LET pk == CHOOSE x \in todo : TRUE
                     members == tracker_group(t.groups, pk[1], pk[2])
                 IN Each(todo \ {pk},
                         [t EXCEPT !.heap = add_candidate_from_group(t, pk[1], members)])
    IN Each(pos_keys, tracker)

\* __init__ with _build_initial_groups
tracker_init(outcomes_with_probs) ==
    LET keys == DictKeys(outcomes_with_probs)
        RECURSIVE Build(_, _)
        Build(k, groups) ==
            IF k > Len(keys) THEN groups
            ELSE Build(k + 1, add_outcome_to_groups(groups, keys[k]))
        groups == Build(1, {})
    IN add_candidates([probabilities |-> outcomes_with_probs,
                       groups |-> groups,
                       heap |-> {},
                       valid_outcomes |-> {keys[k] : k \in 1..Len(keys)}],
                      {<<g[1], get_merge_key(g[2], g[1])>> : g \in groups})

\* get_best_merge: pops entries until one is valid; [tracker, found, best].
RECURSIVE get_best_merge(_)
get_best_merge(tracker) ==
    IF tracker.heap = {}
    THEN [tracker |-> tracker, found |-> FALSE,
          best |-> [neg_prob |-> 0, pos |-> NoPos, out1 |-> <<>>, out2 |-> <<>>]]
    ELSE LET e == CHOOSE a \in tracker.heap :
                      \A b \in tracker.heap : a = b \/ EntryLess(a, b)
             popped == [tracker EXCEPT !.heap = @ \ {e}]
             members == tracker_group(tracker.groups, e.pos, get_merge_key(e.out1, e.pos))
         IN IF /\ e.out1 \in tracker.valid_outcomes
               /\ e.out2 \in tracker.valid_outcomes
               /\ e.out1 \in members
               /\ e.out2 \in members
            THEN [tracker |-> popped, found |-> TRUE, best |-> e]
            ELSE get_best_merge(popped)

\* perform_merge
perform_merge(tracker, out1, out2, pos) ==
    LET merged == merge_two_outcomes(out1, out2, pos)
        new_prob == DictGet(tracker.probabilities, out1)
                    + DictGet(tracker.probabilities, out2)
        popped == SelectSeq(tracker.probabilities, LAMBDA e : e.k \notin {out1, out2})
        removed == remove_outcome_from_groups(
                       remove_outcome_from_groups(tracker.groups, out1), out2)
        valid == tracker.valid_outcomes \ {out1, out2}
    IN IF DictHas(popped, merged)
       THEN [tracker EXCEPT !.probabilities = DictAdd(popped, merged, new_prob),
                            !.groups = removed,
                            !.valid_outcomes = valid]
       ELSE add_candidates(
                [tracker EXCEPT !.probabilities = DictSet(popped, merged, new_prob),
                                !.groups = add_outcome_to_groups(removed, merged),
                                !.valid_outcomes = valid \cup {merged}],
                {<<q, get_merge_key(merged, q)>> :
                     q \in {r \in 0..(Len(merged) - 1) : CharAt(merged, r) # "X"}})

----------------------------------------------------------------------------
\* Scenario reporting

\* get_top_scenarios: sorted by probability descending (stable), cut to
\* max_scenarios entries.
get_top_scenarios(outcomes_with_probs, max_scenarios) ==
    LET n == Len(outcomes_with_probs)
        Rank(k) == Cardinality({j \in 1..n :
                                    outcomes_with_probs[j].v > outcomes_with_probs[k].v})
                   + Cardinality({j \in 1..(k - 1) :
                                      outcomes_with_probs[j].v = outcomes_with_probs[k].v})
                   + 1
        sorted_outcomes == [r \in 1..n |-> outcomes_with_probs[CHOOSE k \in 1..n : Rank(k) = r]]
    IN SubSeq(sorted_outcomes, 1, Min(n, max_scenarios))

\* decode_merged_outcome_to_games.  While decoding, a slot holds the list of
\* the names it may stand for: <<>> for no team, <<t>> for a team, more for
\* a combined "either" team.
decode_merged_outcome_to_games(results_bracket, remaining_games, outcome_string) ==
    LET Names(team) == IF team = None THEN <<>> ELSE <<get_team_name(team)>>
        slots0 == [round_key \in ROUND_KEYS |->
                      [g \in 1..Len(results_bracket.rounds[round_key]) |->
                          [team1 |-> Names(results_bracket.rounds[round_key][g].team1),
                           team2 |-> Names(results_bracket.rounds[round_key][g].team2)]]]
        Propagate(slots, round_key, game_index, winner) ==
            LET parent_info == get_parent_game_info(round_key, game_index)
            IN IF parent_info = <<>> THEN slots
               ELSE IF parent_info[2] >= Len(slots[parent_info[1]]) THEN slots
                    ELSE IF parent_info[3] = 0
                         THEN [slots EXCEPT ![parent_info[1]][parent_info[2] + 1].team1 = winner]
                         ELSE [slots EXCEPT ![parent_info[1]][parent_info[2] + 1].team2 = winner]
        RECURSIVE Loop(_, _, _)
        Loop(i, slots, game_results) ==
            IF i >= Len(remaining_games) THEN game_results
            ELSE LET round_key == remaining_games[i + 1][1]
                     game_index == remaining_games[i + 1][2]
                     team1 == slots[round_key][game_index + 1].team1
                     team2 == slots[round_key][game_index + 1].team2
                     outcome_char == outcome_string[i + 1]
                     winner == CASE outcome_char = "D" -> team1
                                 [] outcome_char = "X" -> team1 \o team2
                                 [] outcome_char = "0" -> team1
                                 [] OTHER -> team2
                     result == [round |-> round_key,
                                gameIndex |-> game_index,
                                team1 |-> team1,
                                team2 |-> team2,
                                winner |-> IF outcome_char \in {"D", "X"} THEN <<>> ELSE winner,
                                dead |-> outcome_char = "D",
                                either |-> outcome_char = "X"]
                 IN IF team1 = <<>> \/ team2 = <<>>
                    THEN Loop(i + 1, slots, game_results)
                    ELSE Loop(i + 1, Propagate(slots, round_key, game_index, winner),
                              Append(game_results, result))
    IN Loop(0, slots0, <<>>)

\* process_outcomes: per participant merge, keep the top scenarios, decode.
process_outcomes(raw_outcomes, results_bracket, remaining_games, max_scenarios) ==
    [name \in DOMAIN raw_outcomes |->
        IF raw_outcomes[name] = <<>> THEN <<>>
        ELSE LET Decoded(top) ==
                     [k \in 1..Len(top) |->
                         [outcome |-> top[k].k,
                          probability |-> top[k].v,
                          games |-> decode_merged_outcome_to_games(results_bracket,
                                        remaining_games, top[k].k)]]
             IN Decoded(get_top_scenarios(
                    merge_outcomes(raw_outcomes[name], remaining_games, TRUE),
                    max_scenarios))]

----------------------------------------------------------------------------
\* Next-game preferences

\* compute_next_game_preferences, lines 1894-1914: the mass of a
\* participant's outcomes in which team1 ('1') or team2 (anything else) wins
\* the game at a position of the outcome string.
preference_mass(outcomes, position, team1_wins) ==
    SumSeq([k \in 1..Len(outcomes) |->
               IF position < Len(outcomes[k].k)
                  /\ (outcomes[k].k[position + 1] = "1") = team1_wins
               THEN outcomes[k].v ELSE 0])

\* compute_next_game_preferences, lines 1916-1932: the preferences of one
\* game from the masses per participant; an entry is null, or holds the two
\* conditional probabilities.
game_preferences(participant_team1_probs, participant_team2_probs, total_team1_prob, total_team2_prob) ==
    [name \in DOMAIN participant_team1_probs |->
        IF total_team1_prob > 0 \/ total_team2_prob > 0
        THEN [null |-> FALSE,
              team1 |-> IF total_team1_prob > 0
                        THEN Ratio(participant_team1_probs[name], total_team1_prob)
                        ELSE Ratio(0, 1),
              team2 |-> IF total_team2_prob > 0
                        THEN Ratio(participant_team2_probs[name], total_team2_prob)
                        ELSE Ratio(0, 1)]
        ELSE [null |-> TRUE]]

\* compute_next_game_preferences: for every next game that is a remaining
\* game, its two teams and every participant's preferences.
compute_next_game_preferences(raw_outcomes, remaining_games, next_games) ==
    LET Masses(position, team1_wins) ==
            [name \in DOMAIN raw_outcomes |->
                preference_mass(raw_outcomes[name], position, team1_wins)]
        Total(masses) == SumSeq([name \in DOMAIN masses |-> masses[name]])
        Preferences(team1_probs, team2_probs) ==
            game_preferences(team1_probs, team2_probs, Total(team1_probs),
                             Total(team2_probs))
        found == SelectSeq(next_games, LAMBDA ng : IndexOf(remaining_games, ng) >= 0)
    IN [g \in 1..Len(found) |->
           [round_key |-> found[g][1],
            game_index |-> found[g][2],
            position |-> IndexOf(remaining_games, found[g]),
            preferences |-> Preferences(
                Masses(IndexOf(remaining_games, found[g]), TRUE),
                Masses(IndexOf(remaining_games, found[g]), FALSE))]]

----------------------------------------------------------------------------
\* Scoring configuration

\* The value None of a scoring array that has not been loaded.
NotLoaded == <<>>

\* MarchMadnessProbabilities.py lines 21-26: the scoring globals when the
\* module has been imported.
ScoringGlobalsAtImport ==
    [SCORE_FOR_ROUND |-> NotLoaded, SEED_FACTOR |-> NotLoaded, config_loaded |-> FALSE]

\* Number of paths load_scoring_config searches (config_path and the
\* default locations).
MaxConfigPaths == 2

\* What a search path of load_scoring_config holds: no file, a file that is
\* not JSON, a JSON file without one of the two arrays, a valid file.
ConfigFileKinds == {"absent", "invalid_json", "no_scoreForRound", "no_seedFactor", "valid"}

\* load_scoring_config: the globals are set from the first search path that
\* holds a valid file; every other file is reported and passed over; with
\* no valid file FileNotFoundError is raised.  [raised, scoring_config].
load_scoring_config(globals, search_paths) ==
    IF globals.config_loaded THEN [raised |-> "", scoring_config |-> globals]
    ELSE IF \E k \in 1..Len(search_paths) : search_paths[k] = "valid"
         THEN [raised |-> "",
               scoring_config |-> [SCORE_FOR_ROUND |-> SCORE_FOR_ROUND,
                                   SEED_FACTOR |-> SEED_FACTOR,
                                   config_loaded |-> TRUE]]
         ELSE [raised |-> "FileNotFoundError", scoring_config |-> globals]

----------------------------------------------------------------------------
\* generateOptimalBrackets.py: the optimal bracket of a participant

\* get_alive_teams: the teams of the games without a winner.
get_alive_teams(results_bracket) ==
    LET AllGames == Flatten([r \in ROUND_KEYS |-> results_bracket.rounds[r]])
    IN UNION {IF AllGames[k].winner # None THEN {}
              ELSE {AllGames[k].team1, AllGames[k].team2} \ {None} :
                 k \in 1..Len(AllGames)}

\* get_picks_at_round: the alive teams picked to win a game of the round
\* (the code returns them as list(set): in no defined order).
get_picks_at_round(picks_bracket, round_num, alive_teams) ==
    LET picks_round == picks_bracket.rounds[round_num]
    IN IF round_num = 6
       THEN {picks_round[1].winner} \cap alive_teams
       ELSE {picks_round[k].winner : k \in 1..Len(picks_round)} \cap alive_teams

\* get_furthest_round: the last round the team wins in the picks, 0 if none.
get_furthest_round(picks_bracket, team_name) ==
    LET Wins(round_num) ==
            \E k \in 1..Len(picks_bracket.rounds[round_num]) :
                picks_bracket.rounds[round_num][k].winner = team_name
        RECURSIVE Down(_)
        Down(round_num) ==
            IF round_num = 0 THEN 0
            ELSE IF Wins(round_num) THEN round_num ELSE Down(round_num - 1)
    IN IF picks_bracket.rounds[6][1].winner = team_name THEN 6 ELSE Down(5)

\* get_furthest_round_in_path: the last round up to max_round the team wins
\* in the picks, 1 if none.
get_furthest_round_in_path(picks_bracket, team_name, max_round) ==
    LET Wins(round_num) ==
            \E k \in 1..Len(picks_bracket.rounds[round_num]) :
                picks_bracket.rounds[round_num][k].winner = team_name
        RECURSIVE Down(_)
        Down(round_num) ==
            IF round_num = 0 THEN 1
            ELSE IF Wins(round_num) THEN round_num ELSE Down(round_num - 1)
    IN Down(max_round)

\* propagate_winner: the winner takes its slot of the next round's game.
propagate_winner(bracket, current_round, game_index, winner) ==
    IF current_round >= 6 THEN bracket
    ELSE IF game_index \div 2 >= Len(bracket.rounds[current_round + 1]) THEN bracket
         ELSE IF game_index % 2 = 0
              THEN [bracket EXCEPT !.rounds[current_round + 1][(game_index \div 2) + 1].team1 = winner]
              ELSE [bracket EXCEPT !.rounds[current_round + 1][(game_index \div 2) + 1].team2 = winner]

\* mark_team_winning, lines 157-214: one undecided game of a round.  The
\* team wins the game it is in, or a game with an empty slot that the picks
\* give to the team; the alive opponents of the picks are to be processed.
mark_team_in_game(optimal_bracket, picks_bracket, team_name, round_num, i, alive_teams) ==
    LET game == GameAt(optimal_bracket, round_num, i)
        picks_games == picks_bracket.rounds[round_num]
        pick_team1 == IF i < Len(picks_games) THEN picks_games[i + 1].team1 ELSE None
        pick_team2 == IF i < Len(picks_games) THEN picks_games[i + 1].team2 ELSE None
        Item(opp) ==
            << [team_name |-> opp,
                target_round |-> Min(get_furthest_round_in_path(picks_bracket, opp, round_num),
                                     round_num)] >>
        Opponent(opp) ==
            IF opp # None /\ opp # team_name /\ opp \in alive_teams THEN Item(opp) ELSE <<>>
        Won(decided, opponents) ==
            [marked |-> TRUE,
             bracket |-> propagate_winner(SetGame(optimal_bracket, round_num, i, decided),
                                          round_num, i, team_name),
             opponents |-> opponents]
    IN IF game.team1 = team_name \/ game.team2 = team_name
       THEN Won([game EXCEPT !.winner = team_name],
                Opponent(pick_team1) \o Opponent(pick_team2))
       ELSE IF (game.team1 = None \/ game.team2 = None)
               /\ (pick_team1 = team_name \/ pick_team2 = team_name)
            THEN Won(IF game.team1 = None /\ pick_team1 = team_name
                     THEN [game EXCEPT !.team1 = team_name, !.winner = team_name]
                     ELSE IF game.team2 = None /\ pick_team2 = team_name
                          THEN [game EXCEPT !.team2 = team_name, !.winner = team_name]
                          ELSE [game EXCEPT !.winner = team_name],
                     IF (IF pick_team1 = team_name THEN pick_team2 ELSE pick_team1) # None
                        /\ (IF pick_team1 = team_name THEN pick_team2 ELSE pick_team1)
                               \in alive_teams
                     THEN Item(IF pick_team1 = team_name THEN pick_team2 ELSE pick_team1)
                     ELSE <<>>)
            ELSE [marked |-> FALSE, bracket |-> optimal_bracket, opponents |-> <<>>]

\* mark_team_winning: the team wins its games of rounds 1..target_round
\* (the first game of each round that takes it); returns the bracket and the
\* opponents to process.
mark_team_winning(optimal_bracket, picks_bracket, team_name, target_round, alive_teams) ==
    LET RECURSIVE Rounds(_, _, _), Games(_, _, _, _), After(_, _, _, _)
        Rounds(bracket, opponents, round_num) ==
            IF round_num > target_round
            THEN [bracket |-> bracket, opponents |-> opponents]
            ELSE Games(bracket, opponents, round_num, 0)
        Games(bracket, opponents, round_num, i) ==
            IF i >= Len(bracket.rounds[round_num])
            THEN Rounds(bracket, opponents, round_num + 1)
            ELSE IF GameAt(bracket, round_num, i).winner # None
                 THEN Games(bracket, opponents, round_num, i + 1)
                 ELSE After(mark_team_in_game(bracket, picks_bracket, team_name,
                                              round_num, i, alive_teams),
                            opponents, round_num, i)
        After(m, opponents, round_num, i) ==
            IF m.marked
            THEN Rounds(m.bracket, opponents \o m.opponents, round_num + 1)
            ELSE Games(m.bracket, opponents, round_num, i + 1)
    IN Rounds(optimal_bracket, <<>>, 1)

\* Mutant of is_dead_path: only the slot itself is examined, not the later
\* slots of its path.
is_dead_path_this_slot(picks_bracket, round_num, game_idx, alive_teams) ==
    ~(/\ game_idx < Len(picks_bracket.rounds[round_num])
      /\ picks_bracket.rounds[round_num][game_idx + 1].winner # None
      /\ picks_bracket.rounds[round_num][game_idx + 1].winner \in alive_teams)

\* is_dead_path: no alive pick in this slot nor in any later slot of its
\* path to the championship.
is_dead_path(picks_bracket, round_num, game_idx, alive_teams) ==
    LET RECURSIVE Path(_, _)
        Path(r, current_game_idx) ==
            IF r > 6 THEN TRUE
            ELSE IF /\ current_game_idx < Len(picks_bracket.rounds[r])
                    /\ picks_bracket.rounds[r][current_game_idx + 1].winner # None
                    /\ picks_bracket.rounds[r][current_game_idx + 1].winner \in alive_teams
                 THEN FALSE
                 ELSE Path(r + 1, current_game_idx \div 2)
    IN Path(round_num, game_idx)

\* step1_find_latest, lines 255-261: the alive picks of the furthest round
\* that has any.
starting_teams_of(picks_bracket, alive_teams) ==
    LET RECURSIVE Down(_)
        Down(round_num) ==
            IF round_num = 0 THEN {}
            ELSE IF get_picks_at_round(picks_bracket, round_num, alive_teams) # {}
                 THEN get_picks_at_round(picks_bracket, round_num, alive_teams)
                 ELSE Down(round_num - 1)
    IN Down(6)

\* step1_find_latest: the results bracket with the participant's furthest
\* alive picks, and the alive opponents the picks give them, marked as
\* winning.  starting_teams is the list the code takes from list(set).
step1_find_latest(results_bracket, picks_bracket, alive_teams, starting_teams) ==
    LET RECURSIVE Process(_, _, _), Marked(_, _, _)
        Process(optimal_bracket, to_process, processed) ==
            IF to_process = <<>> THEN optimal_bracket
            ELSE IF to_process[Len(to_process)].team_name \in processed
                 THEN Process(optimal_bracket, SubSeq(to_process, 1, Len(to_process) - 1),
                              processed)
                 ELSE Marked(mark_team_winning(optimal_bracket, picks_bracket,
                                 to_process[Len(to_process)].team_name,
                                 to_process[Len(to_process)].target_round, alive_teams),
                             SubSeq(to_process, 1, Len(to_process) - 1),
                             processed \cup {to_process[Len(to_process)].team_name})
        Marked(m, to_process, processed) ==
            Process(m.bracket,
                    to_process \o SelectSeq(m.opponents,
                                     LAMBDA opp : opp.team_name \notin processed
                                                  /\ opp.team_name \in alive_teams),
                    processed)
    IN Process(results_bracket,
               [k \in 1..Len(starting_teams) |->
                   [team_name |-> starting_teams[k],
                    target_round |-> get_furthest_round(picks_bracket, starting_teams[k])]],
               {})

\* step2_mark_dead_paths: the undecided games on a dead path.
step2_mark_dead_paths(optimal_bracket, picks_bracket, alive_teams) ==
    SelectSeq(find_remaining_games(optimal_bracket),
              LAMBDA g : is_dead_path(picks_bracket, g[1], g[2], alive_teams))

\* find_simulation_games: the undecided games that are not dead and have
\* both teams, by round then index.
find_simulation_games(optimal_bracket, dead_games) ==
    SelectSeq(find_remaining_games(optimal_bracket),
              LAMBDA g : /\ \A k \in 1..Len(dead_games) : dead_games[k] # g
                         /\ GameAt(optimal_bracket, g[1], g[2]).team1 # None
                         /\ GameAt(optimal_bracket, g[1], g[2]).team2 # None)

\* create_simulation_bracket, lines 359-371: one simulated game.
simulate_game(hypothetical, round_key, game_idx, outcome_char) ==
    propagate_winner(
        SetGame(hypothetical, round_key, game_idx,
                [GameAt(hypothetical, round_key, game_idx) EXCEPT
                    !.winner = IF outcome_char = "0"
                               THEN GameAt(hypothetical, round_key, game_idx).team1
                               ELSE GameAt(hypothetical, round_key, game_idx).team2]),
        round_key, game_idx,
        IF outcome_char = "0" THEN GameAt(hypothetical, round_key, game_idx).team1
        ELSE GameAt(hypothetical, round_key, game_idx).team2)

\* create_simulation_bracket: '0' makes team1 the winner, '1' team2; the
\* winner moves on to the next round's game.
create_simulation_bracket(optimal_bracket, simulation_games, outcome_string) ==
    LET RECURSIVE Apply(_, _)
        Apply(hypothetical, i) ==
            IF i >= Len(simulation_games) THEN hypothetical
            ELSE IF GameAt(hypothetical, simulation_games[i + 1][1],
                           simulation_games[i + 1][2]).team1 = None
                    \/ GameAt(hypothetical, simulation_games[i + 1][1],
                              simulation_games[i + 1][2]).team2 = None
                 THEN Apply(hypothetical, i + 1)
                 ELSE Apply(simulate_game(hypothetical, simulation_games[i + 1][1],
                                          simulation_games[i + 1][2],
                                          outcome_string[i + 1]), i + 1)
    IN Apply(optimal_bracket, 0)

\* compute_score as a call in a process whose scoring globals are in the
\* given state: while SCORE_FOR_ROUND is None (line 21) the subscript
\* SCORE_FOR_ROUND[round_num] of line 730, reached at the first correct
\* pick, raises TypeError.
compute_score_call(config_loaded, results_bracket, picks_bracket, teams_data, apply_seed_bonus) ==
    IF ~config_loaded
       /\ compute_score(results_bracket, picks_bracket, teams_data,
                        apply_seed_bonus).correct_picks > 0
    THEN [raised |-> "TypeError", total_score |-> 0]
    ELSE [raised |-> "",
          total_score |-> compute_score(results_bracket, picks_bracket, teams_data,
                                        apply_seed_bonus).total_score]

\* step3_simulate_all: the outcomes of maximal score among all 2^n outcome
\* strings of the simulation games, as [raised, required, allowed,
\* max_outcomes, scored, score_calls]: raised is the exception that ends the
\* call ("" for none), required and allowed the counts of the RuntimeError
\* message, scored the outcome strings whose score was computed, score_calls
\* the number of compute_score calls made.
step3_simulate_all(config_loaded, max_simulations_allowed, optimal_bracket, picks_bracket, simulation_games, teams_data) ==
    LET n == Len(simulation_games)
        RECURSIVE Loop(_, _, _, _), Scored(_, _, _, _, _)
        Loop(i, max_score, max_outcomes, scored) ==
            IF i >= Pow2(n)
            THEN [raised |-> "", required |-> Pow2(n), allowed |-> max_simulations_allowed,
                  max_outcomes |-> max_outcomes, scored |-> scored, score_calls |-> i]
            ELSE Scored(compute_score_call(config_loaded,
                            create_simulation_bracket(optimal_bracket, simulation_games,
                                                      FormatBinary(i, n)),
                            picks_bracket, teams_data, TRUE),
                        i, max_score, max_outcomes, scored)
        Scored(s, i, max_score, max_outcomes, scored) ==
            IF s.raised # ""
            THEN [raised |-> s.raised, required |-> Pow2(n),
                  allowed |-> max_simulations_allowed,
                  max_outcomes |-> max_outcomes, scored |-> scored, score_calls |-> i + 1]
            ELSE Loop(i + 1,
                      Max(s.total_score, max_score),
                      IF s.total_score > max_score
                      THEN << [k |-> FormatBinary(i, n), v |-> s.total_score] >>
                      ELSE IF s.total_score = max_score
                           THEN DictSet(max_outcomes, FormatBinary(i, n), s.total_score)
                           ELSE max_outcomes,
                      Append(scored, FormatBinary(i, n)))
    IN IF n = 0
       THEN [raised |-> "", required |-> 1, allowed |-> max_simulations_allowed,
             max_outcomes |-> << [k |-> <<>>, v |-> 0] >>, scored |-> <<>>, score_calls |-> 0]
       ELSE IF Pow2(n) > max_simulations_allowed
            THEN [raised |-> "RuntimeError", required |-> Pow2(n),
                  allowed |-> max_simulations_allowed,
                  max_outcomes |-> <<>>, scored |-> <<>>, score_calls |-> 0]
            ELSE Loop(0, -1, <<>>, <<>>)

\* max(merged_dict.keys(), key=...): the first key of the largest value.
dict_argmax(d) ==
    d[CHOOSE k \in 1..Len(d) :
          /\ \A j \in 1..Len(d) : d[j].v <= d[k].v
          /\ \A j \in 1..(k - 1) : d[j].v < d[k].v].k

\* step4_merge_and_probability, lines 460-471: the tied outcomes merged with
\* equal weights, the most merged pattern kept.
step4_merged_outcome(max_outcomes, simulation_games) ==
    IF Len(max_outcomes) = 1 THEN max_outcomes[1].k
    ELSE dict_argmax(merge_outcomes([k \in 1..Len(max_outcomes) |->
                                        [k |-> max_outcomes[k].k, v |-> Scale]],
                                    simulation_games, TRUE))

\* step4_merge_and_probability, lines 473-527: the outcome string over all
\* remaining games of the results bracket: D for a dead game, the merged
\* character for a simulation game, 0 or 1 for a game decided in Step 1.
step4_full_outcome(merged_outcome, simulation_games, dead_games, remaining_games, results_bracket, optimal_bracket) ==
    LET In(games, g) == \E k \in 1..Len(games) : games[k] = g
        sim_idx(k) == Cardinality({j \in 1..(k - 1) :
                                      /\ ~In(dead_games, remaining_games[j])
                                      /\ In(simulation_games, remaining_games[j])})
        Decided(opt_game, res_game) ==
            IF opt_game.winner = res_game.team1 THEN "0"
            ELSE IF opt_game.winner = res_game.team2 THEN "1"
                 ELSE IF opt_game.winner = opt_game.team1 THEN "0" ELSE "1"
        Char(k) ==
            IF In(dead_games, remaining_games[k]) THEN "D"
            ELSE IF In(simulation_games, remaining_games[k])
                 THEN (IF sim_idx(k) < Len(merged_outcome)
                       THEN merged_outcome[sim_idx(k) + 1] ELSE "X")
                 ELSE IF GameAt(optimal_bracket, remaining_games[k][1],
                                remaining_games[k][2]).winner # None
                      THEN Decided(GameAt(optimal_bracket, remaining_games[k][1],
                                          remaining_games[k][2]),
                                   GameAt(results_bracket, remaining_games[k][1],
                                          remaining_games[k][2]))
                      ELSE "X"
    IN [k \in 1..Len(remaining_games) |-> Char(k)]

\* build_optimal_bracket, lines 656-688: Step 4 and the returned record
\* (outcome, max_score, num_tied_outcomes; the probability and the decoded
\* games of the record are left out), or the exception of Step 3.
build_optimal_result(step3, simulation_games, dead_games, results_bracket, optimal_bracket) ==
    [raised |-> step3.raised,
     required |-> step3.required,
     allowed |-> step3.allowed,
     simulation_games |-> simulation_games,
     dead_games |-> dead_games,
     scored |-> step3.scored,
     score_calls |-> step3.score_calls,
     max_outcomes |-> step3.max_outcomes,
     optimal |-> IF step3.raised # "" THEN <<>>
                 ELSE [outcome |-> step4_full_outcome(
                                       step4_merged_outcome(step3.max_outcomes,
                                                            simulation_games),
                                       simulation_games, dead_games,
                                       find_remaining_games(results_bracket),
                                       results_bracket, optimal_bracket),
                       max_score |-> step3.max_outcomes[1].v,
                       num_tied_outcomes |-> Len(step3.max_outcomes)]]

\* build_optimal_bracket, lines 655-658: Step 3 on the simulation games.
build_optimal_simulated(config_loaded, max_simulations_allowed, optimal_bracket, dead_games, simulation_games, results_bracket, picks_bracket, teams_data) ==
    build_optimal_result(
        step3_simulate_all(config_loaded, max_simulations_allowed, optimal_bracket,
                           picks_bracket, simulation_games, teams_data),
        simulation_games, dead_games, results_bracket, optimal_bracket)

\* build_optimal_bracket, lines 649-653: Step 2 and the simulation games.
build_optimal_marked(config_loaded, max_simulations_allowed, optimal_bracket, dead_games, results_bracket, picks_bracket, teams_data) ==
    build_optimal_simulated(config_loaded, max_simulations_allowed, optimal_bracket,
        dead_games, find_simulation_games(optimal_bracket, dead_games),
        results_bracket, picks_bracket, teams_data)

\* build_optimal_bracket: Steps 1 to 4 for one participant.
build_optimal_bracket(config_loaded, max_simulations_allowed, results_bracket, picks_bracket, teams_data, starting_teams) ==
    build_optimal_marked(config_loaded, max_simulations_allowed,
        step1_find_latest(results_bracket, picks_bracket,
                          get_alive_teams(results_bracket), starting_teams),
        step2_mark_dead_paths(
            step1_find_latest(results_bracket, picks_bracket,
                              get_alive_teams(results_bracket), starting_teams),
            picks_bracket, get_alive_teams(results_bracket)),
        results_bracket, picks_bracket, teams_data)

----------------------------------------------------------------------------
\* Fixture: the inputs of a run

\* Number of participants of the pool.
NumParticipants == 2

\* Largest simulation budget tried (max_simulations).
MaxSimulations == 2

\* Length of the cyclic bit tape that stands for the random source.
TapeLen == 1

\* load_bracket: the bracket of the final four with the given winners of
\* the two semifinals and of the final (None: not played).  The winner of a
\* semifinal occupies its slot of the final.
MakeBracket(w1, w2, wf) ==
    [rounds |-> [round_key \in ROUND_KEYS |->
                    CASE round_key = 5 -> << [team1 |-> 1, team2 |-> 2, winner |-> w1],
                                             [team1 |-> 3, team2 |-> 4, winner |-> w2] >>
                      [] round_key = 6 -> << [team1 |-> w1, team2 |-> w2, winner |-> wf] >>
                      [] OTHER -> <<>>],
     winner |-> wf]

\* Results brackets: any prefix of the tournament played.
ResultsBrackets ==
    {MakeBracket(w[1], w[2], w[3]) :
        w \in {x \in {None, 1, 2} \X {None, 3, 4} \X (TEAMS \cup {None}) :
                  x[3] = None \/ (x[1] # None /\ x[2] # None /\ x[3] \in {x[1], x[2]})}}

\* Picks brackets: every game picked.
PicksBrackets ==
    {MakeBracket(w[1], w[2], w[3]) :
        w \in {x \in {1, 2} \X {3, 4} \X TEAMS : x[3] \in {x[1], x[2]}}}

\* Seeds of the four teams (teams file).
FixtureSeeds == <<8, 9, 1, 2>>

\* A row of the probability table: prob_r32..prob_r4 are 1 for a team of the
\* final four, prob_r2 and prob_win as given (in 1/ProbDen units).
ProbRow(r2, win) ==
    [prob_r32 |-> ProbDen, prob_r16 |-> ProbDen, prob_r8 |-> ProbDen,
     prob_r4 |-> ProbDen, prob_r2 |-> r2, prob_win |-> win]

\* load_teams: the teams files of the fixture.  Without probability columns;
\* with every team an even finalist and teams 1 and 2 the possible
\* champions; with teams 1 and 3 certain finalists and even champions (the
\* long shots 2 and 4 at probability 0).  In both tables prob_r2 sums to 2
\* and prob_win to 1, as validate_team_probabilities expects.
TeamsTables ==
    { [seed |-> FixtureSeeds, has_prob |-> FALSE,
       prob |-> [t \in TEAMS |-> ProbRow(0, 0)]],
      [seed |-> FixtureSeeds, has_prob |-> TRUE,
       prob |-> [t \in TEAMS |-> ProbRow(1, IF t <= 2 THEN 1 ELSE 0)]],
      [seed |-> FixtureSeeds, has_prob |-> TRUE,
       prob |-> [t \in TEAMS |-> ProbRow(IF t \in {1, 3} THEN ProbDen ELSE 0,
                                         IF t \in {1, 3} THEN 1 ELSE 0)]] }

Tapes == [1..TapeLen -> {0, 1}]

\* The orders list(set(...)) may give the remaining teams.
Orderings(S) ==
    {seq \in [1..Cardinality(S) -> S] : \A t \in S : \E k \in DOMAIN seq : seq[k] = t}

\* Value of a variable a specification does not use.
Unused == <<>>

----------------------------------------------------------------------------
\* State

VARIABLES
    pc,                    \* position in the operation that is running
    results_bracket,       \* the results bracket (input)
    name_to_bracket,       \* the participants' picks brackets (input)
    teams_data,            \* the teams file: seeds and probability table (input)
    apply_seed_bonus,      \* whether upset bonuses are scored (input)
    max_simulations,       \* the simulation budget, NoBudget for none (input)
    tape,                  \* the random source (input)
    remaining_games,       \* find_remaining_games(results_bracket)
    outcome_strings,       \* Step 1
    outcome_probabilities, \* Step 2
    all_scores,            \* Step 3
    ranking,               \* Step 4: winners, losers, all_sorted_scores
    sums,                  \* Step 5: the accumulated masses
    outputs,               \* win/lose probabilities and average places
    scenarios,             \* Step 6: winning and losing scenarios
    scoring,               \* the scoring comparison (SpecScoring)
    merging,               \* the outcome merger (SpecMerge)
    next_game_preferences, \* the next-game win and lose preferences
    scoring_config,        \* the scoring globals of the process (entry points)
    optimal,               \* generateOptimalBrackets.main (SpecOptimal)
    main,                  \* MarchMadnessProbabilities.main (SpecMain)
    lookup,                \* calls of get_team_probability (SpecLookup)
    accumulation,          \* order of a run of accumulate_results (SpecAccumulate)
    invocation             \* a call of one function: arguments and result

vars == <<pc, results_bracket, name_to_bracket, teams_data, apply_seed_bonus,
          max_simulations, tape, remaining_games, outcome_strings,
          outcome_probabilities, all_scores, ranking, sums, outputs, scenarios,
          scoring, merging, next_game_preferences, scoring_config, optimal,
          main, lookup, accumulation, invocation>>

\* The state of the entry points, which the functions they call leave alone.
entry_points == <<scoring_config, optimal, main, lookup, accumulation, invocation>>

inputs == <<results_bracket, name_to_bracket, teams_data, apply_seed_bonus,
            max_simulations, tape>>

----------------------------------------------------------------------------
\* calculate_win_probabilities

\* The arguments of a run: any results bracket, picks, teams file and budget.
Init ==
    /\ pc = "start"
    /\ results_bracket \in ResultsBrackets
    /\ name_to_bracket \in [1..NumParticipants -> PicksBrackets]
    /\ teams_data \in TeamsTables
    /\ apply_seed_bonus = TRUE
    /\ max_simulations \in {NoBudget} \cup 1..MaxSimulations
    /\ tape \in IF max_simulations = NoBudget
                THEN {[k \in 1..TapeLen |-> 0]} ELSE Tapes
    /\ remaining_games = Unused
    /\ outcome_strings = Unused
    /\ outcome_probabilities = Unused
    /\ all_scores = Unused
    /\ ranking = Unused
    /\ sums = Unused
    /\ outputs = Unused
    /\ scenarios = Unused
    /\ scoring = Unused
    /\ merging = Unused
    /\ next_game_preferences = Unused
    /\ scoring_config = Unused
    /\ optimal = Unused
    /\ main = Unused
    /\ lookup = Unused
    /\ accumulation = Unused
    /\ invocation = Unused

\* lines 2244-2246
FindRemainingGames ==
    /\ pc = "start"
    /\ remaining_games' = find_remaining_games(results_bracket)
    /\ pc' = "loaded"
    /\ UNCHANGED <<inputs, outcome_strings, outcome_probabilities, all_scores,
                   ranking, sums, outputs, scenarios, scoring, merging,
                   next_game_preferences, entry_points>>

\* lines 2249-2264: no game remains; no simulation, empty scenarios.
TournamentOver ==
    /\ pc = "loaded"
    /\ Len(remaining_games) = 0
    /\ outputs' = tournament_over_result(results_bracket, name_to_bracket,
                                         teams_data, apply_seed_bonus)
    /\ scenarios' = [winning |-> <<>>, losing |-> <<>>]
    /\ next_game_preferences' = [winning |-> <<>>, losing |-> <<>>]
    /\ pc' = "done"
    /\ UNCHANGED <<inputs, remaining_games, outcome_strings, outcome_probabilities,
                   all_scores, ranking, sums, scoring, merging, entry_points>>

\* lines 2266-2402, Step 1: exhaustive enumeration, or stratified sampling
\* when the budget is smaller than the number of outcomes.
Step1GenerateOutcomes ==
    /\ pc = "loaded"
    /\ Len(remaining_games) # 0
    /\ \E remaining_teams \in Orderings(find_remaining_teams(results_bracket)) :
           outcome_strings' = generate_outcome_strings(results_bracket, remaining_games,
                                  max_simulations, remaining_teams, tape)
    /\ pc' = "step1"
    /\ UNCHANGED <<inputs, remaining_games, outcome_probabilities, all_scores,
                   ranking, sums, outputs, scenarios, scoring, merging,
                   next_game_preferences, entry_points>>

\* lines 2353, 2419-2424, Step 2
Step2OutcomeProbabilities ==
    /\ pc = "step1"
    /\ outcome_probabilities' =
           calculate_all_outcome_probabilities(outcome_strings, results_bracket,
               remaining_games, teams_data, teams_data.has_prob,
               Scale \div Pow2(Len(remaining_games)))
    /\ pc' = "step2"
    /\ UNCHANGED <<inputs, remaining_games, outcome_strings, all_scores,
                   ranking, sums, outputs, scenarios, scoring, merging,
                   next_game_preferences, entry_points>>

\* lines 2356, 2431-2436, Step 3
Step3Scores ==
    /\ pc = "step2"
    /\ all_scores' =
           calculate_all_scores_batched(outcome_strings, results_bracket,
               remaining_games, name_to_bracket, teams_data, apply_seed_bonus,
               compute_base_scores(results_bracket, name_to_bracket, teams_data,
                                   apply_seed_bonus))
    /\ pc' = "step3"
    /\ UNCHANGED <<inputs, remaining_games, outcome_strings, outcome_probabilities,
                   ranking, sums, outputs, scenarios, scoring, merging,
                   next_game_preferences, entry_points>>

\* lines 2443-2447, Step 4
Step4WinnersAndLosers ==
    /\ pc = "step3"
    /\ ranking' = determine_winners_and_losers(all_scores, Len(outcome_strings))
    /\ pc' = "step4"
    /\ UNCHANGED <<inputs, remaining_games, outcome_strings, outcome_probabilities,
                   all_scores, sums, outputs, scenarios, scoring, merging,
                   next_game_preferences, entry_points>>

\* lines 2454-2466, Step 5
Step5Accumulate ==
    /\ pc = "step4"
    /\ sums' = accumulate_results(outcome_strings, outcome_probabilities,
                   ranking.winners, ranking.losers, ranking.all_sorted_scores,
                   [k \in 1..Len(name_to_bracket) |-> k])
    /\ pc' = "step5"
    /\ UNCHANGED <<inputs, remaining_games, outcome_strings, outcome_probabilities,
                   all_scores, ranking, outputs, scenarios, scoring, merging,
                   next_game_preferences, entry_points>>

\* lines 2478-2516: the normalized probabilities.  The raw outcome masses
\* are scaled by the same factor; they stay in sums as numerators over the
\* denominator of the outputs.
Normalize ==
    /\ pc = "step5"
    /\ outputs' = normalize(sums)
    /\ pc' = "normalized"
    /\ UNCHANGED <<inputs, remaining_games, outcome_strings, outcome_probabilities,
                   all_scores, ranking, sums, scenarios, scoring, merging,
                   next_game_preferences, entry_points>>

\* lines 2518-2569: the next-game preferences, then Step 6
Step6ProcessOutcomes ==
    /\ pc = "normalized"
    /\ next_game_preferences' =
           [winning |-> compute_next_game_preferences(sums.raw_winning_outcomes,
                            remaining_games, find_next_games(results_bracket)),
            losing |-> compute_next_game_preferences(sums.raw_losing_outcomes,
                           remaining_games, find_next_games(results_bracket))]
    /\ scenarios' =
           [winning |-> process_outcomes(sums.raw_winning_outcomes, results_bracket,
                                         remaining_games, DEFAULT_MAX_SCENARIOS),
            losing |-> process_outcomes(sums.raw_losing_outcomes, results_bracket,
                                        remaining_games, DEFAULT_MAX_SCENARIOS)]
    /\ pc' = "done"
    /\ UNCHANGED <<inputs, remaining_games, outcome_strings, outcome_probabilities,
                   all_scores, ranking, sums, outputs, scoring, merging, entry_points>>

Next ==
    \/ FindRemainingGames
    \/ TournamentOver
    \/ Step1GenerateOutcomes
    \/ Step2OutcomeProbabilities
    \/ Step3Scores
    \/ Step4WinnersAndLosers
    \/ Step5Accumulate
    \/ Normalize
    \/ Step6ProcessOutcomes

Spec == Init /\ [][Next]_vars

----------------------------------------------------------------------------
\* Scoring comparison: the full score of a projected bracket against the
\* base score plus delta that calculate_all_scores_batched uses.

\* Largest seed in the teams files tried; seed 0 is a team without a seed.
MaxSeed == 2

\* All outcome strings over {0,1} of length n.
BinaryStrings(n) == [1..n -> {"0", "1"}]

InitScoring ==
    /\ pc = "score_start"
    /\ results_bracket \in ResultsBrackets
    /\ name_to_bracket \in [1..1 -> PicksBrackets]
    /\ teams_data \in {[seed |-> seed, has_prob |-> FALSE,
                        prob |-> [t \in TEAMS |-> ProbRow(0, 0)]] :
                           seed \in [TEAMS -> 0..MaxSeed]}
    /\ apply_seed_bonus \in BOOLEAN
    /\ max_simulations = NoBudget
    /\ tape = Unused
    /\ remaining_games = find_remaining_games(results_bracket)
    /\ outcome_strings = Unused
    /\ outcome_probabilities = Unused
    /\ all_scores = Unused
    /\ ranking = Unused
    /\ sums = Unused
    /\ outputs = Unused
    /\ scenarios = Unused
    /\ scoring = Unused
    /\ merging = Unused
    /\ next_game_preferences = Unused
    /\ scoring_config = Unused
    /\ optimal = Unused
    /\ main = Unused
    /\ lookup = Unused
    /\ accumulation = Unused
    /\ invocation = Unused

\* create_hypothetical_bracket for any outcome string of the remaining games
ProjectOutcome ==
    /\ pc = "score_start"
    /\ \E outcome_string \in BinaryStrings(Len(remaining_games)) :
           scoring' = [outcome_string |-> outcome_string,
                       hypothetical |-> create_hypothetical_bracket(
                                            results_bracket, remaining_games,
                                            outcome_string)]
    /\ pc' = "projected"
    /\ UNCHANGED <<inputs, remaining_games, outcome_strings, outcome_probabilities,
                   all_scores, ranking, sums, outputs, scenarios, merging,
                   next_game_preferences, entry_points>>

\* compute_score of the projected bracket
ScoreFull ==
    /\ pc = "projected"
    /\ scoring' = [outcome_string |-> scoring.outcome_string,
                   hypothetical |-> scoring.hypothetical,
                   full |-> compute_score(scoring.hypothetical, name_to_bracket[1],
                                          teams_data, apply_seed_bonus)]
    /\ pc' = "scored_full"
    /\ UNCHANGED <<inputs, remaining_games, outcome_strings, outcome_probabilities,
                   all_scores, ranking, sums, outputs, scenarios, merging,
                   next_game_preferences, entry_points>>

\* compute_base_scores and calculate_all_scores_batched for the one outcome
ScoreBatched ==
    /\ pc = "scored_full"
    /\ LET base_scores == compute_base_scores(results_bracket, name_to_bracket,
                                              teams_data, apply_seed_bonus)
       IN scoring' = [outcome_string |-> scoring.outcome_string,
                      hypothetical |-> scoring.hypothetical,
                      full |-> scoring.full,
                      base |-> base_scores[1],
                      delta |-> compute_score_delta(scoring.hypothetical,
                                    name_to_bracket[1], teams_data, apply_seed_bonus,
                                    remaining_games),
                      batched |-> calculate_all_scores_batched(
                                      <<scoring.outcome_string>>, results_bracket,
                                      remaining_games, name_to_bracket, teams_data,
                                      apply_seed_bonus, base_scores)[1][1]]
    /\ pc' = "scored_batched"
    /\ UNCHANGED <<inputs, remaining_games, outcome_strings, outcome_probabilities,
                   all_scores, ranking, sums, outputs, scenarios, merging,
                   next_game_preferences, entry_points>>

\* The outcome projected again, twice, after the projection of any other
\* outcome string, as the loops over the outcome strings do.
ProjectedInSequence(sequence, projections) ==
    /\ scoring' = [outcome_string |-> scoring.outcome_string,
                   hypothetical |-> scoring.hypothetical,
                   full |-> scoring.full,
                   base |-> scoring.base,
                   delta |-> scoring.delta,
                   batched |-> scoring.batched,
                   sequence |-> sequence,
                   again |-> projections.hypos,
                   results_before |-> results_bracket]
    /\ results_bracket' = projections.results_bracket

ProjectAgain ==
    /\ pc = "scored_batched"
    /\ \E other \in BinaryStrings(Len(remaining_games)) :
           ProjectedInSequence(
               <<other, scoring.outcome_string, scoring.outcome_string>>,
               project_in_sequence(results_bracket, remaining_games,
                   <<other, scoring.outcome_string, scoring.outcome_string>>))
    /\ pc' = "projected_again"
    /\ UNCHANGED <<name_to_bracket, teams_data, apply_seed_bonus, max_simulations,
                   tape, remaining_games, outcome_strings, outcome_probabilities,
                   all_scores, ranking, sums, outputs, scenarios, merging,
                   next_game_preferences, entry_points>>

NextScoring ==
    \/ ProjectOutcome
    \/ ScoreFull
    \/ ScoreBatched
    \/ ProjectAgain

SpecScoring == InitScoring /\ [][NextScoring]_vars

----------------------------------------------------------------------------
\* The outcome merger on its own: merge_outcomes on any set of raw outcome
\* strings, run a second time on its own result, then MergeCandidateTracker
\* on the same raw outcomes, driven by get_best_merge / perform_merge until
\* no candidate is left.

\* Most remaining games of a merger input.
MaxGames == 3

\* Remaining-games lists of n games in rounds 5 and 6, by round.
RemainingGamesLists(n) ==
    {[k \in 1..n |-> IF k <= in5 THEN <<5, k - 1>> ELSE <<6, k - in5 - 1>>] :
        in5 \in 0..n}

\* The raw outcomes of a participant: the outcome strings of S, ascending or
\* descending, with equal masses or masses growing along the list.
RawOutcomes(n, S, descending, growing) ==
    LET all == generate_all_outcome_strings(n, Pow2(n))
        listed == SelectSeq(all, LAMBDA o : o \in S)
        ordered == IF descending
                   THEN [k \in 1..Len(listed) |-> listed[Len(listed) + 1 - k]]
                   ELSE listed
    IN [k \in 1..Len(ordered) |->
           [k |-> ordered[k], v |-> IF growing THEN k ELSE 1]]

InitMerge ==
    /\ pc = "merge_start"
    /\ \E n \in 1..MaxGames :
       \E S \in SUBSET BinaryStrings(n) :
       \E descending \in BOOLEAN :
       \E growing \in BOOLEAN :
       \E has_remaining_games \in BOOLEAN :
       \E games \in IF has_remaining_games THEN RemainingGamesLists(n) ELSE {<<>>} :
           /\ S # {}
           /\ merging = [outcomes_with_probs |-> RawOutcomes(n, S, descending, growing),
                         remaining_games |-> games,
                         has_remaining_games |-> has_remaining_games]
    /\ results_bracket = Unused
    /\ name_to_bracket = Unused
    /\ teams_data = Unused
    /\ apply_seed_bonus = TRUE
    /\ max_simulations = NoBudget
    /\ tape = Unused
    /\ remaining_games = Unused
    /\ outcome_strings = Unused
    /\ outcome_probabilities = Unused
    /\ all_scores = Unused
    /\ ranking = Unused
    /\ sums = Unused
    /\ outputs = Unused
    /\ scenarios = Unused
    /\ scoring = Unused
    /\ next_game_preferences = Unused
    /\ scoring_config = Unused
    /\ optimal = Unused
    /\ main = Unused
    /\ lookup = Unused
    /\ accumulation = Unused
    /\ invocation = Unused

MergeUnchanged ==
    UNCHANGED <<inputs, remaining_games, outcome_strings, outcome_probabilities,
                all_scores, ranking, sums, outputs, scenarios, scoring,
                next_game_preferences, entry_points>>

\* merge_outcomes(outcomes_with_probs, remaining_games)
MergeOutcomes ==
    /\ pc = "merge_start"
    /\ LET run == merge_outcomes_log(merging.outcomes_with_probs,
                                     merging.remaining_games,
                                     merging.has_remaining_games)
       IN merging' = [outcomes_with_probs |-> merging.outcomes_with_probs,
                      remaining_games |-> merging.remaining_games,
                      has_remaining_games |-> merging.has_remaining_games,
                      merged |-> merge_outcomes(merging.outcomes_with_probs,
                                                merging.remaining_games,
                                                merging.has_remaining_games),
                      merges |-> run.merges]
    /\ pc' = "merged"
    /\ MergeUnchanged

\* merge_outcomes on the result of merge_outcomes
MergeAgain ==
    /\ pc = "merged"
    /\ merging' = [outcomes_with_probs |-> merging.outcomes_with_probs,
                   remaining_games |-> merging.remaining_games,
                   has_remaining_games |-> merging.has_remaining_games,
                   merged |-> merging.merged,
                   merges |-> merging.merges,
                   merged_again |-> merge_outcomes(merging.merged,
                                                   merging.remaining_games,
                                                   merging.has_remaining_games)]
    /\ pc' = "merged_again"
    /\ MergeUnchanged

\* MergeCandidateTracker(outcomes_with_probs)
TrackerInit ==
    /\ pc = "merged_again"
    /\ merging' = [outcomes_with_probs |-> merging.outcomes_with_probs,
                   merges |-> merging.merges,
                   tracker |-> tracker_init(merging.outcomes_with_probs),
                   tracker_merges |-> <<>>]
    /\ pc' = "tracking"
    /\ MergeUnchanged

\* tracker.get_best_merge()
TrackerGetBestMerge ==
    /\ pc = "tracking"
    /\ LET got == get_best_merge(merging.tracker)
       IN /\ merging' = [outcomes_with_probs |-> merging.outcomes_with_probs,
                         merges |-> merging.merges,
                         tracker |-> got.tracker,
                         tracker_merges |-> merging.tracker_merges,
                         best |-> got.best]
          /\ pc' = IF got.found THEN "best_merge" ELSE "tracker_done"
    /\ MergeUnchanged

\* tracker.perform_merge(out1, out2, pos) with the candidate just returned
TrackerPerformMerge ==
    /\ pc = "best_merge"
    /\ merging' = [outcomes_with_probs |-> merging.outcomes_with_probs,
                   merges |-> merging.merges,
                   tracker |-> perform_merge(merging.tracker, merging.best.out1,
                                             merging.best.out2, merging.best.pos),
                   tracker_merges |-> Append(merging.tracker_merges,
                                             <<merging.best.out1, merging.best.out2,
                                               merging.best.pos>>)]
    /\ pc' = "tracking"
    /\ MergeUnchanged

NextMerge ==
    \/ MergeOutcomes
    \/ MergeAgain
    \/ TrackerInit
    \/ TrackerGetBestMerge
    \/ TrackerPerformMerge

SpecMerge == InitMerge /\ [][NextMerge]_vars

----------------------------------------------------------------------------
\* generateOptimalBrackets.main: the optimal bracket of every participant

\* MAX_SIMULATIONS is 2 ** 20 in the code; the runs take it as 2 ** k for
\* every k up to this bound, so that the fixture's simulation games fall on
\* both sides of it.
MaxSimulationBits == 1

\* A team that lost before the final four, which a participant picked to
\* reach it.
Eliminated == 5

\* bracket_path.exists() is false: no bracket to load.
NotFound == [rounds |-> [round_key \in ROUND_KEYS |-> <<>>], winner |-> None]

\* load_json(bracket_path): a participant's picks of the final four, with
\* the given third semifinalist and winners.
MakePicksBracket(t3, w1, w2, wf) ==
    [rounds |-> [round_key \in ROUND_KEYS |->
                    CASE round_key = 5 -> << [team1 |-> 1, team2 |-> 2, winner |-> w1],
                                             [team1 |-> t3, team2 |-> 4, winner |-> w2] >>
                      [] round_key = 6 -> << [team1 |-> w1, team2 |-> w2, winner |-> wf] >>
                      [] OTHER -> <<>>],
     winner |-> wf]

\* Picks brackets whose third semifinalist is team 3 or the eliminated team.
OptimalPicksBrackets ==
    {MakePicksBracket(x[1], x[2], x[3], x[4]) :
        x \in {y \in {3, Eliminated} \X {1, 2} \X {3, 4, Eliminated} \X (TEAMS \cup {Eliminated}) :
                  y[3] \in {y[1], 4} /\ y[4] \in {y[2], y[3]}}}

\* The process after the imports and the loading of main, lines 691-717:
\* the scoring globals are as MarchMadnessProbabilities defines them at
\* import (lines 21-26), main makes no call of load_scoring_config.
InitOptimal ==
    /\ pc = "optimal_loop"
    /\ results_bracket \in ResultsBrackets
    /\ name_to_bracket = Unused
    /\ teams_data \in {table \in TeamsTables : ~table.has_prob}
    /\ apply_seed_bonus = TRUE
    /\ max_simulations = Unused
    /\ tape = Unused
    /\ remaining_games = Unused
    /\ outcome_strings = Unused
    /\ outcome_probabilities = Unused
    /\ all_scores = Unused
    /\ ranking = Unused
    /\ sums = Unused
    /\ outputs = Unused
    /\ scenarios = Unused
    /\ scoring = Unused
    /\ merging = Unused
    /\ next_game_preferences = Unused
    /\ scoring_config = ScoringGlobalsAtImport
    /\ \E bits \in 0..MaxSimulationBits :
       \E bracket_files \in [1..NumParticipants -> OptimalPicksBrackets \cup {NotFound}] :
           optimal = [MAX_SIMULATIONS |-> Pow2(bits),
                      bracket_files |-> bracket_files,
                      next |-> 1,
                      optimal_brackets |-> <<>>,
                      built |-> <<>>,
                      log |-> <<>>]
    /\ main = Unused
    /\ lookup = Unused
    /\ accumulation = Unused
    /\ invocation = Unused

OptimalUnchanged ==
    UNCHANGED <<inputs, remaining_games, outcome_strings, outcome_probabilities,
                all_scores, ranking, sums, outputs, scenarios, scoring, merging,
                next_game_preferences, scoring_config, main, lookup, accumulation,
                invocation>>

\* The calls of build_optimal_bracket the loop can make for its next
\* participant, one for every order list(set) can give the starting teams.
BuildsOfNext ==
    {build_optimal_bracket(scoring_config.config_loaded, optimal.MAX_SIMULATIONS,
                           results_bracket, optimal.bracket_files[optimal.next],
                           teams_data, starting_teams) :
        starting_teams \in Orderings(starting_teams_of(
                               optimal.bracket_files[optimal.next],
                               get_alive_teams(results_bracket)))}

\* What a call of build_optimal_bracket leaves to look at: the exception
\* it ended with, the simulation games and the outcomes it scored.
BuildTrace(name, b) ==
    [name |-> name, raised |-> b.raised, required |-> b.required,
     allowed |-> b.allowed, simulation_games |-> b.simulation_games,
     dead_games |-> b.dead_games, scored |-> b.scored,
     score_calls |-> b.score_calls,
     max_outcomes |-> b.max_outcomes]

\* lines 721-724: no bracket file; a warning, and the next participant.
OptimalBracketNotFound ==
    /\ pc = "optimal_loop"
    /\ optimal.next <= NumParticipants
    /\ optimal.bracket_files[optimal.next] = NotFound
    /\ optimal' = [optimal EXCEPT
                      !.next = @ + 1,
                      !.log = Append(@, [kind |-> "warning", name |-> optimal.next])]
    /\ pc' = pc
    /\ OptimalUnchanged

\* lines 726-731: the optimal bracket of the participant is stored.
OptimalGenerated ==
    /\ pc = "optimal_loop"
    /\ optimal.next <= NumParticipants
    /\ optimal.bracket_files[optimal.next] # NotFound
    /\ \E b \in BuildsOfNext :
           /\ b.raised = ""
           /\ optimal' = [optimal EXCEPT
                             !.next = @ + 1,
                             !.optimal_brackets =
                                 Append(@, [k |-> optimal.next, v |-> b.optimal]),
                             !.built = Append(@, BuildTrace(optimal.next, b)),
                             !.log = Append(@, [kind |-> "generated",
                                                name |-> optimal.next])]
    /\ pc' = pc
    /\ OptimalUnchanged

\* lines 732-734: RuntimeError of step3_simulate_all; the message with the
\* required and allowed counts is printed, and the next participant.
OptimalTooManySimulations ==
    /\ pc = "optimal_loop"
    /\ optimal.next <= NumParticipants
    /\ optimal.bracket_files[optimal.next] # NotFound
    /\ \E b \in BuildsOfNext :
           /\ b.raised = "RuntimeError"
           /\ optimal' = [optimal EXCEPT
                             !.next = @ + 1,
                             !.built = Append(@, BuildTrace(optimal.next, b)),
                             !.log = Append(@, [kind |-> "error",
                                                name |-> optimal.next,
                                                required |-> b.required,
                                                allowed |-> b.allowed])]
    /\ pc' = pc
    /\ OptimalUnchanged

\* lines 728-734: an exception that is not a RuntimeError leaves the loop
\* and main; the process ends with a traceback.
OptimalUncaught ==
    /\ pc = "optimal_loop"
    /\ optimal.next <= NumParticipants
    /\ optimal.bracket_files[optimal.next] # NotFound
    /\ \E b \in BuildsOfNext :
           /\ b.raised \notin {"", "RuntimeError"}
           /\ optimal' = [optimal EXCEPT
                             !.built = Append(@, BuildTrace(optimal.next, b)),
                             !.log = Append(@, [kind |-> "traceback",
                                                name |-> optimal.next,
                                                raised |-> b.raised])]
    /\ pc' = "optimal_crashed"
    /\ OptimalUnchanged

\* lines 736-739: optimal-brackets.json is written.
OptimalSave ==
    /\ pc = "optimal_loop"
    /\ optimal.next > NumParticipants
    /\ optimal' = [optimal EXCEPT !.log = Append(@, [kind |-> "saved"])]
    /\ pc' = "optimal_saved"
    /\ OptimalUnchanged

NextOptimal ==
    \/ OptimalBracketNotFound
    \/ OptimalGenerated
    \/ OptimalTooManySimulations
    \/ OptimalUncaught
    \/ OptimalSave

SpecOptimal == InitOptimal /\ [][NextOptimal]_vars

----------------------------------------------------------------------------
\* MarchMadnessProbabilities.main: the command-line run

\* The process at the start of main: nothing loaded.
InitMain ==
    /\ pc = "main_start"
    /\ results_bracket = Unused
    /\ name_to_bracket = Unused
    /\ teams_data = Unused
    /\ apply_seed_bonus = Unused
    /\ max_simulations = Unused
    /\ tape = Unused
    /\ remaining_games = Unused
    /\ outcome_strings = Unused
    /\ outcome_probabilities = Unused
    /\ all_scores = Unused
    /\ ranking = Unused
    /\ sums = Unused
    /\ outputs = Unused
    /\ scenarios = Unused
    /\ scoring = Unused
    /\ merging = Unused
    /\ next_game_preferences = Unused
    /\ scoring_config = ScoringGlobalsAtImport
    /\ optimal = Unused
    /\ main = [raised |-> "", names |-> <<>>, warnings |-> <<>>, output |-> <<>>]
    /\ lookup = Unused
    /\ accumulation = Unused
    /\ invocation = Unused

MainUnchanged ==
    UNCHANGED <<remaining_games, outcome_strings, outcome_probabilities, all_scores,
                ranking, sums, outputs, scenarios, scoring, merging,
                next_game_preferences, optimal, lookup, accumulation, invocation>>

\* line 2594: load_scoring_config(args.config) finds a valid file.
MainConfigLoaded ==
    /\ pc = "main_start"
    /\ \E search_paths \in [1..MaxConfigPaths -> ConfigFileKinds] :
           /\ load_scoring_config(scoring_config, search_paths).raised = ""
           /\ scoring_config' = load_scoring_config(scoring_config,
                                                    search_paths).scoring_config
    /\ pc' = "main_config"
    /\ UNCHANGED <<inputs, main>>
    /\ MainUnchanged

\* line 2594: load_scoring_config raises FileNotFoundError, which main does
\* not catch; the run ends before anything else is loaded.
MainConfigNotFound ==
    /\ pc = "main_start"
    /\ \E search_paths \in [1..MaxConfigPaths -> ConfigFileKinds] :
           /\ load_scoring_config(scoring_config, search_paths).raised # ""
           /\ main' = [main EXCEPT !.raised =
                           load_scoring_config(scoring_config, search_paths).raised]
    /\ pc' = "main_failed"
    /\ UNCHANGED <<inputs, scoring_config>>
    /\ MainUnchanged

\* The participants whose bracket file exists, in the order of the
\* participants list.
FoundNames(found) == SelectSeq([k \in 1..NumParticipants |-> k], LAMBDA name : name \in found)

\* calculate_win_probabilities, lines 2206-2238: the results bracket, the
\* teams file and the bracket of every participant that has one are loaded;
\* a warning is printed for every participant without a bracket file.
\* The default of --max-simulations (100000) is above 2^n for every bracket
\* here, so the outcomes are enumerated and no random number is drawn.
MainLoadBrackets ==
    /\ pc = "main_config"
    /\ results_bracket' \in ResultsBrackets
    /\ teams_data' \in TeamsTables
    /\ apply_seed_bonus' = TRUE
    /\ max_simulations' = NoBudget
    /\ tape' = [k \in 1..TapeLen |-> 0]
    /\ \E found \in SUBSET (1..NumParticipants) :
           /\ name_to_bracket' \in [1..Cardinality(found) -> PicksBrackets]
           /\ main' = [main EXCEPT
                          !.names = FoundNames(found),
                          !.warnings = FoundNames((1..NumParticipants) \ found)]
    /\ pc' = "main_loaded"
    /\ UNCHANGED scoring_config
    /\ MainUnchanged

\* lines 2240-2242 and 2653-2665: without any bracket the function returns
\* the pair ({}, {}), which main unpacks into eight names: ValueError.
MainNoBracketsFound ==
    /\ pc = "main_loaded"
    /\ Len(name_to_bracket) = 0
    /\ main' = [main EXCEPT !.raised = "ValueError"]
    /\ pc' = "main_failed"
    /\ UNCHANGED <<inputs, scoring_config>>
    /\ MainUnchanged

\* line 2240: some bracket was found; the computation goes on.
MainBracketsFound ==
    /\ pc = "main_loaded"
    /\ Len(name_to_bracket) # 0
    /\ pc' = "start"
    /\ UNCHANGED <<inputs, scoring_config, main>>
    /\ MainUnchanged

\* lines 2653-2680: main unpacks the eight results and writes the output
\* file.
MainSave ==
    /\ pc = "done"
    /\ main' = [main EXCEPT
                   !.output = [win_probabilities |-> outputs.win_probabilities,
                               lose_probabilities |-> outputs.lose_probabilities,
                               average_places |-> outputs.average_places,
                               winning_scenarios |-> scenarios.winning,
                               losing_scenarios |-> scenarios.losing,
                               next_game_preferences |-> next_game_preferences.winning,
                               next_game_lose_preferences |-> next_game_preferences.losing]]
    /\ pc' = "main_saved"
    /\ UNCHANGED <<inputs, scoring_config>>
    /\ MainUnchanged

NextMain ==
    \/ MainConfigLoaded
    \/ MainConfigNotFound
    \/ MainLoadBrackets
    \/ MainNoBracketsFound
    \/ MainBracketsFound
    \/ FindRemainingGames
    \/ TournamentOver
    \/ Step1GenerateOutcomes
    \/ Step2OutcomeProbabilities
    \/ Step3Scores
    \/ Step4WinnersAndLosers
    \/ Step5Accumulate
    \/ Normalize
    \/ Step6ProcessOutcomes
    \/ MainSave

SpecMain == InitMain /\ [][NextMain]_vars

----------------------------------------------------------------------------
\* Probability lookup with its fallbacks

\* Number of lookups in a run.
MaxLookups == 2

\* The team names looked up and the seeds of the teams files.
LookupTeams == 1..2
LookupSeeds == 0..1

\* The column names looked up: the six of PROB_COLUMNS and one other.
LookupColumns == {PROB_COLUMNS[k] : k \in 1..Len(PROB_COLUMNS)} \cup {"prob_other"}

\* Rows of a teams file: some of the columns, with a value.
LookupRows ==
    { [c \in columns |-> value] :
        columns \in {{}, {"prob_r32"}, {"prob_win"}, {"prob_r32", "prob_r16", "prob_r8"},
                     {PROB_COLUMNS[k] : k \in 1..Len(PROB_COLUMNS)}},
        value \in {0, 20, LookupUnit} }

\* SEED_PROBABILITIES after load_seed_probabilities: empty (no file), or a
\* row of six columns for every seed of the file (a column the file lacks
\* holds (1/2)^k, lines 223-230).
LookupSeedTables ==
    { <<>>,
      [seed \in {1} |-> [c \in {PROB_COLUMNS[k] : k \in 1..Len(PROB_COLUMNS)} |-> 48]],
      [seed \in {1} |-> [c \in {PROB_COLUMNS[k] : k \in 1..Len(PROB_COLUMNS)} |->
                            HalfPower(rounds_needed(c))]] }

InitLookup ==
    /\ pc = "lookup"
    /\ results_bracket = Unused
    /\ name_to_bracket = Unused
    /\ \E row \in LookupRows, seed \in LookupSeeds, teams \in {{}, {1}} :
           teams_data = [team_name \in teams |-> [seed |-> seed, columns |-> row]]
    /\ apply_seed_bonus = Unused
    /\ max_simulations = Unused
    /\ tape = Unused
    /\ remaining_games = Unused
    /\ outcome_strings = Unused
    /\ outcome_probabilities = Unused
    /\ all_scores = Unused
    /\ ranking = Unused
    /\ sums = Unused
    /\ outputs = Unused
    /\ scenarios = Unused
    /\ scoring = Unused
    /\ merging = Unused
    /\ next_game_preferences = Unused
    /\ scoring_config = Unused
    /\ optimal = Unused
    /\ main = Unused
    /\ \E seed_probabilities \in LookupSeedTables :
           lookup = [SEED_PROBABILITIES |-> seed_probabilities,
                     warned_missing_prob_teams |-> {},
                     calls |-> <<>>]
    /\ accumulation = Unused
    /\ invocation = Unused

\* One call of get_team_probability.
GetTeamProbability ==
    /\ pc = "lookup"
    /\ Len(lookup.calls) < MaxLookups
    /\ \E team_name \in LookupTeams, prob_column \in LookupColumns :
           LET call == get_team_probability_call(lookup.SEED_PROBABILITIES,
                           lookup.warned_missing_prob_teams, team_name, prob_column,
                           teams_data)
           IN lookup' = [lookup EXCEPT
                           !.warned_missing_prob_teams = call.warned,
                           !.calls = Append(@, [team_name |-> team_name,
                                                prob_column |-> prob_column,
                                                returned |-> call.returned,
                                                source |-> call.source])]
    /\ UNCHANGED <<pc, inputs, remaining_games, outcome_strings, outcome_probabilities,
                   all_scores, ranking, sums, outputs, scenarios, scoring, merging,
                   next_game_preferences, scoring_config, optimal, main,
                   accumulation, invocation>>

NextLookup == GetTeamProbability

SpecLookup == InitLookup /\ [][NextLookup]_vars

----------------------------------------------------------------------------
\* accumulate_results on the same entries in another order

\* Number of (outcome, probability, ranking) entries of a run.
MaxEntries == 3

\* Largest probability mass of an outcome, in units.
MaxMass == 2

\* The orders of n entries.
Orders(n) == {order \in [1..n -> 1..n] : \A i, j \in 1..n : i # j => order[i] # order[j]}

\* A list in the given order.
InOrder(list, order) == [k \in 1..Len(list) |-> list[order[k]]]

\* The rankings of two participants, best first.
AccumulateRankings ==
    { <<[name |-> 1, score |-> 10], [name |-> 2, score |-> 5]>>,
      <<[name |-> 2, score |-> 10], [name |-> 1, score |-> 5]>> }

\* The results of Steps 1 to 4 for some outcomes of one remaining game: the
\* probability and the ranking of an entry are those of its outcome string;
\* a sampled outcome may come more than once.
InitAccumulate ==
    /\ pc = "step4"
    /\ results_bracket = Unused
    /\ name_to_bracket = Unused
    /\ teams_data = Unused
    /\ apply_seed_bonus = Unused
    /\ max_simulations = Unused
    /\ tape = Unused
    /\ remaining_games = Unused
    /\ \E count \in 1..MaxEntries :
           outcome_strings \in [1..count -> BinaryStrings(1)]
    /\ \E mass \in [BinaryStrings(1) -> 0..MaxMass] :
           outcome_probabilities = [k \in 1..Len(outcome_strings) |-> mass[outcome_strings[k]]]
    /\ all_scores = Unused
    /\ \E sorted \in [BinaryStrings(1) -> AccumulateRankings] :
           ranking = [winners |-> [k \in 1..Len(outcome_strings) |->
                                      sorted[outcome_strings[k]][1].name],
                      losers |-> [k \in 1..Len(outcome_strings) |->
                                     sorted[outcome_strings[k]][2].name],
                      all_sorted_scores |-> [k \in 1..Len(outcome_strings) |->
                                                sorted[outcome_strings[k]]]]
    /\ sums = Unused
    /\ outputs = Unused
    /\ scenarios = Unused
    /\ scoring = Unused
    /\ merging = Unused
    /\ next_game_preferences = Unused
    /\ scoring_config = Unused
    /\ optimal = Unused
    /\ main = Unused
    /\ lookup = Unused
    /\ accumulation = [order |-> <<>>]
    /\ invocation = Unused

\* accumulate_results called with the entries in some order.
AccumulateInOrder ==
    /\ pc = "step4"
    /\ \E order \in Orders(Len(outcome_strings)) :
           /\ sums' = accumulate_results(InOrder(outcome_strings, order),
                          InOrder(outcome_probabilities, order),
                          InOrder(ranking.winners, order),
                          InOrder(ranking.losers, order),
                          InOrder(ranking.all_sorted_scores, order),
                          <<1, 2>>)
           /\ accumulation' = [order |-> order]
    /\ pc' = "step5"
    /\ UNCHANGED <<inputs, remaining_games, outcome_strings, outcome_probabilities,
                   all_scores, ranking, outputs, scenarios, scoring, merging,
                   next_game_preferences, scoring_config, optimal, main, lookup,
                   invocation>>

NextAccumulate == AccumulateInOrder

SpecAccumulate == InitAccumulate /\ [][NextAccumulate]_vars

----------------------------------------------------------------------------
\* generate_champion_stratified_outcomes: one outcome for one team

\* Number of bits of the random source in the calls of the generators: one
\* for every remaining game of the fixture.
DrawLen == 3

\* The state of the pipeline variables in a specification of one function.
CallInit(next_pc, results) ==
    /\ pc = next_pc
    /\ results_bracket \in results
    /\ name_to_bracket = Unused
    /\ teams_data = Unused
    /\ apply_seed_bonus = Unused
    /\ max_simulations = Unused
    /\ remaining_games = find_remaining_games(results_bracket)
    /\ outcome_strings = Unused
    /\ outcome_probabilities = Unused
    /\ all_scores = Unused
    /\ ranking = Unused
    /\ sums = Unused
    /\ outputs = Unused
    /\ scenarios = Unused
    /\ scoring = Unused
    /\ merging = Unused
    /\ next_game_preferences = Unused
    /\ scoring_config = Unused
    /\ optimal = Unused
    /\ main = Unused
    /\ lookup = Unused
    /\ accumulation = Unused
    /\ invocation = Unused

CallUnchanged ==
    UNCHANGED <<inputs, remaining_games, outcome_strings, outcome_probabilities,
                all_scores, ranking, sums, outputs, scenarios, scoring, merging,
                next_game_preferences, scoring_config, optimal, main, lookup,
                accumulation>>

\* A results bracket with games to play and the random draws of one outcome.
InitChampion ==
    /\ CallInit("champion", {b \in ResultsBrackets : find_remaining_games(b) # <<>>})
    /\ tape \in [1..DrawLen -> {0, 1}]

\* The outcome generate_champion_stratified_outcomes builds for a remaining
\* team, and its projection onto the results bracket.
ChampionStratified ==
    /\ pc = "champion"
    /\ \E team_name \in find_remaining_teams(results_bracket) :
           LET outcome == generate_champion_stratified_outcomes(results_bracket,
                              remaining_games, <<team_name>>, 1, tape, 0).outcomes[1]
           IN invocation' = [team_name |-> team_name,
                       outcome |-> outcome,
                       hypothetical |-> create_hypothetical_bracket(results_bracket,
                                            remaining_games, outcome)]
    /\ pc' = "champion_projected"
    /\ CallUnchanged

NextChampion == ChampionStratified

SpecChampion == InitChampion /\ [][NextChampion]_vars

----------------------------------------------------------------------------
\* find_next_games and generate_next_game_stratified_outcomes

\* Largest number of outcomes asked of the next-game generator.
MaxOutcomes == 5

\* The team in a slot (0: team1, 1: team2) of a game of rounds 1 to 4 of a
\* bracket of 64 teams in which teams 1 to 4 reach the semifinals: team1 is
\* the team that goes on, team2 a team of its own.
RECURSIVE EarlyTeam(_, _, _)
EarlyTeam(round_key, game_index, slot) ==
    IF slot = 1 /\ round_key = 4 THEN 5 + game_index
    ELSE IF slot = 1 THEN 100 * round_key + game_index
    ELSE IF round_key = 4 THEN game_index + 1
    ELSE EarlyTeam(round_key + 1, game_index \div 2, game_index % 2)

\* A results bracket of 64 teams: rounds 1 to 3 played, the quarterfinals
\* played where q says so, the teams of the semifinals and of the final set
\* by the winners of the games before them.
MakeFullBracket(q, w1, w2, wf) ==
    [rounds |-> [round_key \in ROUND_KEYS |->
        CASE round_key = 6 -> << [team1 |-> w1, team2 |-> w2, winner |-> wf] >>
          [] round_key = 5 ->
                << [team1 |-> IF q[1] THEN 1 ELSE None,
                    team2 |-> IF q[2] THEN 2 ELSE None, winner |-> w1],
                   [team1 |-> IF q[3] THEN 3 ELSE None,
                    team2 |-> IF q[4] THEN 4 ELSE None, winner |-> w2] >>
          [] OTHER ->
                [g \in 1..Pow2(6 - round_key) |->
                    [team1 |-> EarlyTeam(round_key, g - 1, 0),
                     team2 |-> EarlyTeam(round_key, g - 1, 1),
                     winner |-> IF round_key < 4 \/ q[g]
                                THEN EarlyTeam(round_key, g - 1, 0) ELSE None]]],
     winner |-> wf]

\* Results brackets of 64 teams from the quarterfinals on.
FullResultsBrackets ==
    {MakeFullBracket(x[1], x[2], x[3], x[4]) :
        x \in {y \in [1..4 -> BOOLEAN] \X {None, 1, 2} \X {None, 3, 4} \X (TEAMS \cup {None}) :
                  /\ y[2] # None => (y[1][1] /\ y[1][2])
                  /\ y[3] # None => (y[1][3] /\ y[1][4])
                  /\ y[4] = None \/ (y[2] # None /\ y[3] # None /\ y[4] \in {y[2], y[3]})}}

\* A results bracket, whole or holding the last two rounds only, and the
\* random draws.
InitNextGames ==
    /\ CallInit("next_games", ResultsBrackets \cup FullResultsBrackets)
    /\ tape \in [1..DrawLen -> {0, 1}]

\* find_next_games(results_bracket)
FindNextGames ==
    /\ pc = "next_games"
    /\ invocation' = [next_games |-> find_next_games(results_bracket)]
    /\ pc' = "next_found"
    /\ CallUnchanged

\* generate_next_game_stratified_outcomes on the next games, for any number
\* of outcomes.
NextGameStratified ==
    /\ pc = "next_found"
    /\ Len(remaining_games) > 0
    /\ \E num_outcomes \in 1..MaxOutcomes :
           invocation' = [next_games |-> invocation.next_games,
                          num_outcomes |-> num_outcomes,
                          outcomes |-> generate_next_game_stratified_outcomes(
                                           results_bracket, remaining_games,
                                           invocation.next_games, num_outcomes,
                                           tape, 0).outcomes]
    /\ pc' = "next_stratified"
    /\ CallUnchanged

NextNextGames ==
    \/ FindNextGames
    \/ NextGameStratified

SpecNextGames == InitNextGames /\ [][NextNextGames]_vars

----------------------------------------------------------------------------
\* compute_score and compute_score_delta on malformed bracket files

\* The games a file may hold for the pairing a v b: every choice of
\* populated teams and recorded winner, and no game at all.
MalformedGames(a, b) ==
    {[team1 |-> t1, team2 |-> t2, winner |-> w] :
        t1 \in {None, a}, t2 \in {None, b}, w \in {None, a, b}} \cup {NoGame}

\* Results files with a malformed first semifinal and a final that may miss
\* a team.
MalformedResultsBrackets ==
    {[rounds |-> [round_key \in ROUND_KEYS |->
                    CASE round_key = 5 -> <<g1, [team1 |-> 3, team2 |-> 4, winner |-> w2]>>
                      [] round_key = 6 -> <<[team1 |-> f1, team2 |-> w2, winner |-> None]>>
                      [] OTHER -> <<>>],
      winner |-> None] :
        g1 \in MalformedGames(1, 2), w2 \in {None, 3}, f1 \in {None, 1}}

\* Picks files: the semifinal list may be short, a game may be missing,
\* without a pick or with one team only.
MalformedPicksBrackets ==
    {[rounds |-> [round_key \in ROUND_KEYS |->
                    CASE round_key = 5 -> SubSeq(<<p1, [team1 |-> 3, team2 |-> 4, winner |-> 3]>>, 1, n)
                      [] round_key = 6 -> <<pf>>
                      [] OTHER -> <<>>],
      winner |-> None] :
        p1 \in {NoGame, [team1 |-> 1, team2 |-> 2, winner |-> None],
                [team1 |-> 1, team2 |-> 2, winner |-> 1],
                [team1 |-> 1, team2 |-> 2, winner |-> 2],
                [team1 |-> 1, team2 |-> None, winner |-> 1]},
        n \in 0..2,
        pf \in {NoGame, [team1 |-> 1, team2 |-> 3, winner |-> 1]}}

InitMalformed ==
    /\ pc = "malformed"
    /\ results_bracket \in MalformedResultsBrackets
    /\ name_to_bracket \in [1..1 -> MalformedPicksBrackets]
    /\ teams_data \in {[seed |-> seed, has_prob |-> FALSE,
                        prob |-> [t \in TEAMS |-> ProbRow(0, 0)]] :
                           seed \in {s \in [TEAMS -> 0..MaxSeed] :
                                        s[1] # 0 /\ s[3] = 1 /\ s[4] = 2}}
    /\ apply_seed_bonus \in BOOLEAN
    /\ max_simulations = Unused
    /\ tape = Unused
    /\ remaining_games = find_remaining_games(results_bracket)
    /\ outcome_strings = Unused
    /\ outcome_probabilities = Unused
    /\ all_scores = Unused
    /\ ranking = Unused
    /\ sums = Unused
    /\ outputs = Unused
    /\ scenarios = Unused
    /\ scoring = Unused
    /\ merging = Unused
    /\ next_game_preferences = Unused
    /\ scoring_config = Unused
    /\ optimal = Unused
    /\ main = Unused
    /\ lookup = Unused
    /\ accumulation = Unused
    /\ invocation = Unused

\* compute_score of the picks against the results file
ScoreMalformed ==
    /\ pc = "malformed"
    /\ invocation' = [full |-> compute_score(results_bracket, name_to_bracket[1],
                                             teams_data, apply_seed_bonus)]
    /\ pc' = "malformed_scored"
    /\ CallUnchanged

\* compute_score_delta of the picks against a projection of the results
DeltaMalformed ==
    /\ pc = "malformed_scored"
    /\ \E outcome_string \in BinaryStrings(Len(remaining_games)) :
           LET hypothetical == create_hypothetical_bracket(results_bracket,
                                   remaining_games, outcome_string)
           IN invocation' = [full |-> invocation.full,
                             hypothetical |-> hypothetical,
                             delta |-> compute_score_delta(hypothetical,
                                           name_to_bracket[1], teams_data,
                                           apply_seed_bonus, remaining_games)]
    /\ pc' = "malformed_delta"
    /\ CallUnchanged

NextMalformed ==
    \/ ScoreMalformed
    \/ DeltaMalformed

SpecMalformed == InitMalformed /\ [][NextMalformed]_vars

----------------------------------------------------------------------------
\* build_optimal_bracket with the scoring configuration loaded

InitBuild ==
    /\ pc = "build"
    /\ results_bracket \in ResultsBrackets
    /\ name_to_bracket \in [1..1 -> OptimalPicksBrackets]
    /\ teams_data \in {table \in TeamsTables : ~table.has_prob}
    /\ apply_seed_bonus = TRUE
    /\ max_simulations = Unused
    /\ tape = Unused
    /\ remaining_games = find_remaining_games(results_bracket)
    /\ outcome_strings = Unused
    /\ outcome_probabilities = Unused
    /\ all_scores = Unused
    /\ ranking = Unused
    /\ sums = Unused
    /\ outputs = Unused
    /\ scenarios = Unused
    /\ scoring = Unused
    /\ merging = Unused
    /\ next_game_preferences = Unused
    /\ scoring_config = Unused
    /\ optimal = Unused
    /\ main = Unused
    /\ lookup = Unused
    /\ accumulation = Unused
    /\ invocation = Unused

\* build_optimal_bracket, lines 646-653: Step 1 for any order of the
\* starting teams, and Step 2
MarkDeadPaths ==
    /\ pc = "build"
    /\ \E starting_teams \in Orderings(starting_teams_of(name_to_bracket[1],
                                           get_alive_teams(results_bracket))) :
           LET optimal_bracket == step1_find_latest(results_bracket, name_to_bracket[1],
                                      get_alive_teams(results_bracket), starting_teams)
           IN invocation' = [starting_teams |-> starting_teams,
                             optimal_bracket |-> optimal_bracket,
                             dead_games |-> step2_mark_dead_paths(optimal_bracket,
                                                name_to_bracket[1],
                                                get_alive_teams(results_bracket))]
    /\ pc' = "marked"
    /\ CallUnchanged

\* build_optimal_bracket, lines 652-688: Steps 3 and 4 and the result
BuildOptimal ==
    /\ pc = "marked"
    /\ invocation' = [starting_teams |-> invocation.starting_teams,
                      optimal_bracket |-> invocation.optimal_bracket,
                      dead_games |-> invocation.dead_games,
                      build |-> build_optimal_marked(TRUE, Pow2(MaxSimulationBits),
                                    invocation.optimal_bracket, invocation.dead_games,
                                    results_bracket, name_to_bracket[1], teams_data)]
    /\ pc' = "built"
    /\ CallUnchanged

NextBuild ==
    \/ MarkDeadPaths
    \/ BuildOptimal

SpecBuild == InitBuild /\ [][NextBuild]_vars

----------------------------------------------------------------------------
\* Properties of the outcome merger (SpecMerge)

\* Sum of the masses of an outcome dict.
TotalMass(d) == SumSeq(DictValues(d))

\* Two outcomes are identical except at position pos, where both hold a
\* concrete character (neither X nor D).
DifferOnlyAt(outcome1, outcome2, pos) ==
    /\ Len(outcome1) = Len(outcome2)
    /\ pos \in 0..(Len(outcome1) - 1)
    /\ \A q \in 0..(Len(outcome1) - 1) :
           (CharAt(outcome1, q) # CharAt(outcome2, q)) <=> (q = pos)
    /\ CharAt(outcome1, pos) \notin {"X", "D"}
    /\ CharAt(outcome2, pos) \notin {"X", "D"}

\* Two outcomes are mergeable: identical except at one position where both
\* hold a concrete 0/1.
Mergeable(outcome1, outcome2) ==
    \E pos \in 0..(Len(outcome1) - 1) :
        /\ DifferOnlyAt(outcome1, outcome2, pos)
        /\ CharAt(outcome1, pos) \in {"0", "1"}
        /\ CharAt(outcome2, pos) \in {"0", "1"}

\* C4: merge_outcomes keeps the total mass: the masses of the returned map
\* sum to the sum of the masses of the input map (also when it is run again
\* on its own result).
C4_MergePreservesMass ==
    /\ pc \in {"merged", "merged_again"} =>
           TotalMass(merging.merged) = TotalMass(merging.outcomes_with_probs)
    /\ pc = "merged_again" =>
           TotalMass(merging.merged_again) = TotalMass(merging.outcomes_with_probs)

\* C4 witness: a merge run that merged in more than one pass, on outcomes of
\* unequal masses, and left fewer outcomes than it was given.
C4_Witness ==
    /\ pc = "merged"
    /\ Len(merging.merges) >= 3
    /\ Len(merging.merged) < Len(merging.outcomes_with_probs)
    /\ \E k \in 1..Len(merging.outcomes_with_probs) :
           merging.outcomes_with_probs[k].v > 1

\* C5: the result of merge_outcomes holds no two mergeable outcomes, and
\* merge_outcomes run on that result returns it unchanged.
C5_MergeIsMaximalAndIdempotent ==
    /\ pc \in {"merged", "merged_again"} =>
           \A a, b \in 1..Len(merging.merged) :
               ~Mergeable(merging.merged[a].k, merging.merged[b].k)
    /\ pc = "merged_again" => merging.merged_again = merging.merged

\* C5 witness: a second run on a result that came from several merges and
\* still holds more than one outcome.
C5_Witness ==
    /\ pc = "merged_again"
    /\ Len(merging.merges) >= 2
    /\ Len(merging.merged) >= 2
    /\ \E a \in 1..Len(merging.merged) : \E q \in 1..Len(merging.merged[a].k) :
           merging.merged[a].k[q] = "X"

\* C6: every merge either strategy performs combines two outcomes that are
\* identical except at exactly one position, where neither holds X or D.
C6_OnlyValidMerges ==
    /\ pc \in {"merged", "merged_again", "tracking", "best_merge", "tracker_done"} =>
           \A m \in 1..Len(merging.merges) :
               DifferOnlyAt(merging.merges[m][1], merging.merges[m][2],
                            merging.merges[m][3])
    /\ pc \in {"tracking", "best_merge", "tracker_done"} =>
           \A m \in 1..Len(merging.tracker_merges) :
               DifferOnlyAt(merging.tracker_merges[m][1], merging.tracker_merges[m][2],
                            merging.tracker_merges[m][3])

\* C6 witness: both strategies have merged the same raw outcomes, each more
\* than once, and one merge joined outcomes that already held an X.
C6_Witness ==
    /\ pc = "tracker_done"
    /\ Len(merging.merges) >= 2
    /\ Len(merging.tracker_merges) >= 2
    /\ \E m \in 1..Len(merging.tracker_merges) :
           \E q \in 1..Len(merging.tracker_merges[m][1]) :
               merging.tracker_merges[m][1][q] = "X"
    /\ \E m \in 1..Len(merging.merges) :
           \E q \in 1..Len(merging.merges[m][1]) : merging.merges[m][1][q] = "X"

----------------------------------------------------------------------------
\* Properties of scoring (SpecScoring)

\* C2: for every results bracket, outcome string and participant, the full
\* score of the projected bracket equals the base score of the results
\* bracket plus the score delta of the remaining games, which is also the
\* score calculate_all_scores_batched gives.
C2_FullScoreIsBasePlusDelta ==
    pc = "scored_batched" =>
        /\ scoring.full.total_score = scoring.base + scoring.delta
        /\ scoring.batched = scoring.full.total_score

\* C2 witness: a comparison where both the decided and the remaining games
\* scored points and a remaining game earned an upset bonus.
C2_Witness ==
    /\ pc = "scored_batched"
    /\ scoring.base > 0
    /\ scoring.delta > 0
    /\ \E k \in 1..Len(remaining_games) :
           LET hypo_game == GameAt(scoring.hypothetical, remaining_games[k][1],
                                   remaining_games[k][2])
           IN /\ hypo_game.winner =
                     GameAt(name_to_bracket[1], remaining_games[k][1],
                            remaining_games[k][2]).winner
              /\ compute_score_delta_upset_bonus(hypo_game, remaining_games[k][1],
                                                 teams_data, apply_seed_bonus) > 0

\* The decided games of the projected bracket, as <<round, game>>.
ScoredGames ==
    {g \in ROUND_KEYS \X (1..2) :
        /\ g[2] <= Len(scoring.hypothetical.rounds[g[1]])
        /\ scoring.hypothetical.rounds[g[1]][g[2]].winner # None}

\* The favourite won the game: the winner's seed is the smaller of the two
\* teams' seeds.
FavouriteWon(game) ==
    get_team_seed(game.winner, teams_data)
        = Min(get_team_seed(game.team1, teams_data),
              get_team_seed(game.team2, teams_data))

\* C10: the upset bonus compute_score and compute_score_delta add for a game
\* is never negative, and it is zero when the winner's seed is the smaller
\* of the two seeds; so the bonus total of a score is never negative, and
\* zero when the favourite won every game.
C10_UpsetBonusSign ==
    pc \in {"scored_full", "scored_batched"} =>
        /\ \A g \in ScoredGames :
               LET game == scoring.hypothetical.rounds[g[1]][g[2]]
                   in_score == compute_score_upset_bonus(game, g[1], teams_data,
                                                         apply_seed_bonus)
                   in_delta == compute_score_delta_upset_bonus(game, g[1], teams_data,
                                                               apply_seed_bonus)
               IN /\ in_score >= 0
                  /\ in_delta >= 0
                  /\ FavouriteWon(game) => (in_score = 0 /\ in_delta = 0)
        /\ scoring.full.seed_bonus >= 0
        /\ (\A g \in ScoredGames :
                FavouriteWon(scoring.hypothetical.rounds[g[1]][g[2]]))
               => scoring.full.seed_bonus = 0

\* C10 witness: a score with seed bonus on in which one correctly picked game
\* was an upset (bonus added) and another was won by the favourite although
\* the seeds differ.
C10_Witness ==
    /\ pc = "scored_full"
    /\ apply_seed_bonus
    /\ scoring.full.seed_bonus > 0
    /\ \E g \in ScoredGames :
           LET game == scoring.hypothetical.rounds[g[1]][g[2]]
           IN /\ FavouriteWon(game)
              /\ get_team_seed(game.team1, teams_data) # 0
              /\ get_team_seed(game.team2, teams_data) # 0
              /\ get_team_seed(game.team1, teams_data)
                     # get_team_seed(game.team2, teams_data)
              /\ game.winner = name_to_bracket[1].rounds[g[1]][g[2]].winner

----------------------------------------------------------------------------
\* Properties of calculate_win_probabilities (Spec)

\* A run with remaining games has reached its normalized probabilities.
RunNormalized ==
    (pc = "normalized") \/ (pc = "done" /\ Len(remaining_games) > 0)

\* The sum of the numerators of per-participant ratios.
SumOfNumerators(ratios) ==
    SumSeq([name \in 1..NumParticipants |-> ratios[name].num])

\* The common denominator of per-participant ratios.
Denominator(ratios) == ratios[1].den

\* C1: in every completed run with at least one remaining game the win
\* probabilities of all participants sum to 1, and so do the lose
\* probabilities.
C1_ProbabilitiesSumToOne ==
    RunNormalized =>
        /\ SumOfNumerators(outputs.win_probabilities)
               = Denominator(outputs.win_probabilities)
        /\ SumOfNumerators(outputs.lose_probabilities)
               = Denominator(outputs.lose_probabilities)

\* The winner projection gave remaining game i under an outcome string.
ProjectedWinner(outcome_string, i) ==
    LET hypothetical == create_hypothetical_bracket(results_bracket, remaining_games,
                                                    outcome_string)
    IN GameAt(hypothetical, remaining_games[i][1], remaining_games[i][2]).winner

\* The scenarios of all participants, winning and losing.
AllScenarios ==
    UNION {{scenarios.winning[name][k] : k \in 1..Len(scenarios.winning[name])}
           \cup {scenarios.losing[name][k] : k \in 1..Len(scenarios.losing[name])} :
               name \in 1..NumParticipants}

\* C3: an outcome character means the same in scoring and in reporting: for
\* every reported scenario whose outcome string is over {0,1} and every
\* remaining game, the winner the decoded scenario reports is the team
\* projection made the winner of that game when the outcome was scored.
C3_DecodedWinnerIsProjectedWinner ==
    (pc = "done" /\ Len(remaining_games) > 0) =>
        \A scenario \in AllScenarios :
            (\A q \in 1..Len(scenario.outcome) : scenario.outcome[q] \in {"0", "1"}) =>
                \A i \in 1..Len(remaining_games) :
                    \A g \in 1..Len(scenario.games) :
                        (/\ scenario.games[g].round = remaining_games[i][1]
                         /\ scenario.games[g].gameIndex = remaining_games[i][2])
                        => scenario.games[g].winner
                               = <<ProjectedWinner(scenario.outcome, i)>>

\* The outcomes of a run have been ranked.
RunRanked ==
    pc \in {"step4", "step5", "normalized"} \/ (pc = "done" /\ Len(remaining_games) > 0)

\* C7: for every outcome the ranking lists every participant once with its
\* score, by score descending and, among equal scores, in participant-list
\* order; the winner has a score no lower than anyone's and is the first in
\* list order among the top scorers; the loser is the last entry of the
\* ranking.
C7_StableRanking ==
    RunRanked =>
        \A i \in 1..Len(outcome_strings) :
            LET sorted_scores == ranking.all_sorted_scores[i]
                winner == ranking.winners[i]
                Score(name) == all_scores[name][i]
            IN /\ Len(sorted_scores) = NumParticipants
               /\ {sorted_scores[k].name : k \in 1..NumParticipants} = 1..NumParticipants
               /\ \A k \in 1..NumParticipants :
                      sorted_scores[k].score = Score(sorted_scores[k].name)
               /\ \A k, l \in 1..NumParticipants :
                      k < l =>
                          \/ sorted_scores[k].score > sorted_scores[l].score
                          \/ /\ sorted_scores[k].score = sorted_scores[l].score
                             /\ sorted_scores[k].name < sorted_scores[l].name
               /\ \A name \in 1..NumParticipants : Score(winner) >= Score(name)
               /\ \A name \in 1..NumParticipants :
                      Score(name) = Score(winner) => winner <= name
               /\ ranking.losers[i] = sorted_scores[NumParticipants].name

\* C7 witness: a ranked run in which one outcome ties the first two
\* participants and another puts the second ahead of the first.
C7_Witness ==
    /\ pc = "step4"
    /\ \E i \in 1..Len(outcome_strings) : all_scores[1][i] = all_scores[2][i]
    /\ \E i \in 1..Len(outcome_strings) : all_scores[1][i] < all_scores[2][i]

\* The final score of a participant when no game remains.
FinalScore(name) ==
    compute_score(results_bracket, name_to_bracket[name], teams_data,
                  apply_seed_bonus).total_score

\* The static rank of a participant: one more than the number of
\* participants ahead of it, by score and then by list order.
StaticRank(name) ==
    1 + Cardinality({other \in 1..NumParticipants :
                        \/ FinalScore(other) > FinalScore(name)
                        \/ (FinalScore(other) = FinalScore(name) /\ other < name)})

\* C8: with no remaining game no simulation is run; the participant of
\* static rank 1 has win probability 1 and all others 0, the participant of
\* the last static rank has lose probability 1 and all others 0, and every
\* participant's average place is its static rank.
C8_TournamentOver ==
    (pc = "done" /\ Len(remaining_games) = 0) =>
        /\ outcome_strings = Unused
        /\ scenarios = [winning |-> <<>>, losing |-> <<>>]
        /\ \A name \in 1..NumParticipants :
               /\ outputs.win_probabilities[name]
                      = Ratio(IF StaticRank(name) = 1 THEN 1 ELSE 0, 1)
               /\ outputs.lose_probabilities[name]
                      = Ratio(IF StaticRank(name) = NumParticipants THEN 1 ELSE 0, 1)
               /\ outputs.average_places[name] = Ratio(StaticRank(name), 1)
        /\ Cardinality({name \in 1..NumParticipants :
                           outputs.win_probabilities[name] = Ratio(1, 1)}) = 1

\* C8 witness: a finished tournament in which the second participant
\* outscored the first.
C8_Witness ==
    /\ pc = "done"
    /\ Len(remaining_games) = 0
    /\ FinalScore(2) > FinalScore(1)
    /\ outputs.win_probabilities[2] = Ratio(1, 1)

\* The scenario of C9: only the championship remains, Beta (team 1, seed 8)
\* against Alpha (team 3, seed 1); participant X (1) picked Alpha and Y (2)
\* picked Beta, both picked both semifinals right; no probability table, seed
\* bonus on, every outcome enumerated.
C9_Scenario ==
    /\ results_bracket = MakeBracket(1, 3, None)
    /\ name_to_bracket = <<MakeBracket(1, 3, 3), MakeBracket(1, 3, 1)>>
    /\ ~teams_data.has_prob
    /\ teams_data.seed[1] = 8
    /\ teams_data.seed[3] = 1
    /\ apply_seed_bonus
    /\ max_simulations = NoBudget

\* C9: in that scenario both base scores are 300; the outcome where Alpha
\* wins scores X 430 and Y 300, the outcome where Beta wins scores Y 472 and
\* X 300 (no points and no bonus for a wrong pick); X and Y each get win
\* probability 1/2.
C9_ConcreteScenario ==
    C9_Scenario =>
        /\ pc \in {"step3", "step4", "step5", "normalized", "done"} =>
               /\ compute_base_scores(results_bracket, name_to_bracket, teams_data,
                                      apply_seed_bonus) = <<300, 300>>
               /\ SCORE_FOR_ROUND[6] = 130
               /\ SEED_FACTOR[6] = 6
               /\ \A i \in 1..Len(outcome_strings) :
                      LET champion == ProjectedWinner(outcome_strings[i], 1)
                      IN /\ champion = 3 => (all_scores[1][i] = 430 /\ all_scores[2][i] = 300)
                         /\ champion = 1 => (all_scores[2][i] = 472 /\ all_scores[1][i] = 300)
               /\ {ProjectedWinner(outcome_strings[i], 1) : i \in 1..Len(outcome_strings)}
                      = {1, 3}
        /\ pc \in {"normalized", "done"} =>
               /\ 2 * outputs.win_probabilities[1].num = outputs.win_probabilities[1].den
               /\ 2 * outputs.win_probabilities[2].num = outputs.win_probabilities[2].den

\* C9 witness: the scenario has run to its end.
C9_Witness ==
    /\ C9_Scenario
    /\ pc = "done"
    /\ Len(outcome_strings) = 2
    /\ outputs.win_probabilities[1].num > 0

----------------------------------------------------------------------------
\* Properties of bracket projection (SpecScoring)

\* An outcome string has been projected onto the results bracket.
Projected == pc \in {"projected", "scored_full", "scored_batched", "projected_again"}

\* C11: the projection of an outcome string over {0,1} onto a consistent
\* results bracket is a completed bracket: every game has a winner that is
\* one of its two teams, the winner of game i of a round before the last is
\* team1 (i even) or team2 (i odd) of game i div 2 of the next round, and the
\* bracket's winner is the winner of round 6.
C11_ProjectionIsCompleteBracket ==
    Projected =>
        /\ \A r \in ROUND_KEYS : \A g \in 1..Len(scoring.hypothetical.rounds[r]) :
               /\ scoring.hypothetical.rounds[r][g].winner # None
               /\ scoring.hypothetical.rounds[r][g].winner
                      \in {scoring.hypothetical.rounds[r][g].team1,
                           scoring.hypothetical.rounds[r][g].team2}
        /\ \A r \in 1..5 : \A i \in 0..(Len(scoring.hypothetical.rounds[r]) - 1) :
               scoring.hypothetical.rounds[r][i + 1].winner
                   = IF i % 2 = 0
                     THEN scoring.hypothetical.rounds[r + 1][(i \div 2) + 1].team1
                     ELSE scoring.hypothetical.rounds[r + 1][(i \div 2) + 1].team2
        /\ scoring.hypothetical.winner = scoring.hypothetical.rounds[6][1].winner

\* A projection that decided both semifinals and the final, the second
\* semifinal going to its team2 and the final to the second finalist.
C11_Witness ==
    /\ pc = "projected"
    /\ Len(remaining_games) = 3
    /\ scoring.outcome_string = <<"1", "0", "0">>
    /\ scoring.hypothetical.rounds[6][1].team1 = 1
    /\ scoring.hypothetical.rounds[6][1].team2 = 4
    /\ scoring.hypothetical.winner = 4

\* C12: create_hypothetical_bracket leaves the results bracket it is given
\* as it was, two calls in sequence with the same arguments return the same
\* bracket, and a projection is the same whatever was projected before it.
C12_ProjectionLeavesResultsUnchanged ==
    (pc = "projected_again") =>
        /\ results_bracket = scoring.results_before
        /\ scoring.again[3] = scoring.again[2]
        /\ scoring.again[2] = scoring.hypothetical

\* The outcome was projected again after a different outcome that decided
\* a remaining game the other way.
C12_Witness ==
    /\ pc = "projected_again"
    /\ Len(remaining_games) = 3
    /\ scoring.sequence[1] # scoring.sequence[2]
    /\ scoring.again[1].winner # scoring.again[2].winner
    /\ scoring.again[3] = scoring.hypothetical

----------------------------------------------------------------------------
\* Properties of outcome generation (Spec)

\* A run with remaining games has generated its outcome strings.
RunGenerated ==
    pc \in {"step1", "step2", "step3", "step4", "step5", "normalized"}
    \/ (pc = "done" /\ Len(remaining_games) > 0)

\* The run enumerates: no budget, or a budget of at least 2^n outcomes.
ExhaustiveMode ==
    max_simulations = NoBudget \/ Pow2(Len(remaining_games)) <= max_simulations

\* Digit k (from the left) of the n-digit binary form of i.
BinaryDigit(i, n, k) == IF (i \div Pow2(n - k)) % 2 = 1 THEN "1" ELSE "0"

\* C13: without a budget, or when 2^n <= M, the outcome strings of the run
\* are the 2^n binary strings of length n, each once, in increasing integer
\* order: string number i is the n-digit zero-padded binary form of i.
C13_ExhaustiveEnumeration ==
    (RunGenerated /\ ExhaustiveMode) =>
        /\ Len(outcome_strings) = Pow2(Len(remaining_games))
        /\ \A i \in 0..(Len(outcome_strings) - 1) :
               outcome_strings[i + 1]
                   = [k \in 1..Len(remaining_games) |->
                         BinaryDigit(i, Len(remaining_games), k)]
        /\ \A i, j \in 1..Len(outcome_strings) :
               (i # j) => outcome_strings[i] # outcome_strings[j]

\* A run whose budget of 2 covers the 2 outcomes of its one remaining game.
C13_Witness ==
    /\ pc = "step1"
    /\ max_simulations = 2
    /\ Len(remaining_games) = 1
    /\ outcome_strings = << <<"0">>, <<"1">> >>

\* C14: in Monte Carlo mode (2^n > M) the run generates M outcome strings,
\* each of length n over {0,1}.
C14_MonteCarloGeneratesBudget ==
    (RunGenerated /\ ~ExhaustiveMode) =>
        /\ Len(outcome_strings) = max_simulations
        /\ \A i \in 1..Len(outcome_strings) :
               /\ Len(outcome_strings[i]) = Len(remaining_games)
               /\ \A k \in 1..Len(remaining_games) :
                      outcome_strings[i][k] \in {"0", "1"}

----------------------------------------------------------------------------
\* Properties of the next-game preferences (Spec)

\* The raw outcome mass of a participant in which the game at a position
\* has the given result character.
ResultMass(outcomes, position, result) ==
    SumSeq([k \in 1..Len(outcomes) |->
               IF outcomes[k].k[position + 1] = result THEN outcomes[k].v ELSE 0])

\* The same mass over all participants.
TotalResultMass(raw_outcomes, position, result) ==
    SumSeq([name \in 1..NumParticipants |->
               ResultMass(raw_outcomes[name], position, result)])

\* The conditional probability a preferences entry reports for a result.
ReportedConditional(entry, result) ==
    IF entry.null THEN [null |-> TRUE]
    ELSE [null |-> FALSE, value |-> IF result = "1" THEN entry.team1 ELSE entry.team2]

\* The conditional probability of the specification: mass over total mass,
\* null when the total is zero.
ExpectedConditional(raw_outcomes, name, position, result) ==
    IF TotalResultMass(raw_outcomes, position, result) = 0
    THEN [null |-> TRUE]
    ELSE [null |-> FALSE,
          value |-> Ratio(ResultMass(raw_outcomes[name], position, result),
                          TotalResultMass(raw_outcomes, position, result))]

\* The preferences computed from raw outcomes cover every playable game and
\* report the expected conditional for every result and participant.
PreferencesAsSpecified(preferences, raw_outcomes) ==
    /\ Len(preferences) = Len(find_next_games(results_bracket))
    /\ \A g \in 1..Len(preferences) :
           /\ <<preferences[g].round_key, preferences[g].game_index>>
                  = find_next_games(results_bracket)[g]
           /\ \A result \in {"0", "1"} : \A name \in 1..NumParticipants :
                  ReportedConditional(preferences[g].preferences[name], result)
                      = ExpectedConditional(raw_outcomes, name,
                                            preferences[g].position, result)

\* C15: for every playable game, each of its two results and every
\* participant, the preference is the participant's raw outcome mass with
\* that result over the total raw outcome mass with that result, and null
\* when that total is zero.
C15_NextGamePreferences ==
    (pc = "done" /\ Len(remaining_games) > 0) =>
        /\ PreferencesAsSpecified(next_game_preferences.winning,
                                  sums.raw_winning_outcomes)
        /\ PreferencesAsSpecified(next_game_preferences.losing,
                                  sums.raw_losing_outcomes)

----------------------------------------------------------------------------
\* Properties of generateOptimalBrackets.main (SpecOptimal)

\* The log holds the error of a participant with the two counts.
ErrorLogged(name, required, allowed) ==
    \E k \in 1..Len(optimal.log) :
        optimal.log[k] = [kind |-> "error", name |-> name,
                          required |-> required, allowed |-> allowed]

\* C16: for every participant whose optimal bracket is searched, with n
\* simulation games: when 2^n exceeds MAX_SIMULATIONS the search ends in the
\* RuntimeError, printed with the required and the allowed count, and no
\* outcome is scored; otherwise every one of the 2^n outcome strings is
\* scored, in increasing order; and a run that has ended has handled every
\* participant.
C16_SimulationBudgetGuard ==
    (pc \in {"optimal_loop", "optimal_saved", "optimal_crashed"}) =>
        /\ \A k \in 1..Len(optimal.built) :
               /\ optimal.built[k].required = Pow2(Len(optimal.built[k].simulation_games))
               /\ optimal.built[k].allowed = optimal.MAX_SIMULATIONS
               /\ IF optimal.built[k].required > optimal.MAX_SIMULATIONS
                  THEN /\ optimal.built[k].raised = "RuntimeError"
                       /\ optimal.built[k].scored = <<>>
                       /\ ErrorLogged(optimal.built[k].name, optimal.built[k].required,
                                      optimal.MAX_SIMULATIONS)
                  ELSE /\ optimal.built[k].raised = ""
                       /\ Len(optimal.built[k].simulation_games) > 0 =>
                              optimal.built[k].scored =
                                  generate_all_outcome_strings(
                                      Len(optimal.built[k].simulation_games),
                                      optimal.built[k].required)
        /\ pc \in {"optimal_saved", "optimal_crashed"} =>
               optimal.next = NumParticipants + 1

\* C17: in a run of an entry point, a score is computed only after the
\* scoring constants SCORE_FOR_ROUND and SEED_FACTOR have been loaded: every
\* search that has called compute_score ran with the configuration loaded.
C17_ConfigLoadedBeforeScoring ==
    (pc \in {"optimal_loop", "optimal_saved", "optimal_crashed"}) =>
        \A k \in 1..Len(optimal.built) :
            optimal.built[k].score_calls > 0 =>
                /\ scoring_config.config_loaded
                /\ scoring_config.SCORE_FOR_ROUND # NotLoaded
                /\ scoring_config.SEED_FACTOR # NotLoaded

----------------------------------------------------------------------------
\* Properties of MarchMadnessProbabilities.main (SpecMain)

\* The results of a finished run are keyed by exactly the participants whose
\* bracket was found.
CoversFoundParticipants ==
    /\ DOMAIN main.output.win_probabilities = 1..Len(main.names)
    /\ DOMAIN main.output.lose_probabilities = 1..Len(main.names)
    /\ DOMAIN main.output.average_places = 1..Len(main.names)
    /\ DOMAIN main.output.winning_scenarios \subseteq 1..Len(main.names)
    /\ DOMAIN main.output.losing_scenarios \subseteq 1..Len(main.names)

\* A warning was printed for exactly the participants without a bracket, and
\* the brackets in use are those of the others.
WarnedAndExcluded ==
    /\ {main.warnings[k] : k \in 1..Len(main.warnings)} =
           (1..NumParticipants) \ {main.names[k] : k \in 1..Len(main.names)}
    /\ Len(name_to_bracket) = Len(main.names)

\* C18: whatever subset of the listed participants has no bracket file, the
\* run of main warns about each of them, leaves them out, never fails
\* because of them (the only failure is that of the scoring configuration),
\* and the results it saves cover exactly the participants that were found.
C18_MissingBracketsExcluded ==
    /\ pc = "main_failed" => main.raised = "FileNotFoundError"
    /\ (pc \notin {"main_start", "main_config"} /\ main.raised # "FileNotFoundError")
           => WarnedAndExcluded
    /\ pc = "main_saved" => CoversFoundParticipants

\* The part of C18 that holds: when the bracket of some participant is
\* found, the run never fails because of the missing ones.
MissingBracketsExcludedWhenSomeFound ==
    /\ (pc = "main_failed" /\ main.raised # "FileNotFoundError") => Len(main.names) = 0
    /\ (pc \notin {"main_start", "main_config"} /\ main.raised # "FileNotFoundError")
           => WarnedAndExcluded
    /\ pc = "main_saved" => CoversFoundParticipants

\* A run with one participant missing has saved its results.
SavedWithMissingParticipant ==
    /\ pc = "main_saved"
    /\ Len(main.warnings) = 1
    /\ Len(remaining_games) > 0

\* In a run of main the scoring constants are loaded before anything is
\* read or computed, and a run without a valid configuration stops there.
MainConfigLoadedFirst ==
    /\ pc \notin {"main_start", "main_failed"} =>
           /\ scoring_config.config_loaded
           /\ scoring_config.SCORE_FOR_ROUND # NotLoaded
           /\ scoring_config.SEED_FACTOR # NotLoaded
    /\ (pc = "main_failed" /\ main.raised = "FileNotFoundError") =>
           /\ ~scoring_config.config_loaded
           /\ results_bracket = Unused
           /\ all_scores = Unused

----------------------------------------------------------------------------
\* Properties of get_team_probability (SpecLookup)

\* The team table holds a value for the team and column of a call.
ValuePresent(call) ==
    /\ call.team_name \in DOMAIN teams_data
    /\ call.prob_column \in DOMAIN teams_data[call.team_name].columns

\* The seed table holds a value for the seed of the team and the column of
\* a call.
SeedValuePresent(call) ==
    /\ call.team_name \in DOMAIN teams_data
    /\ teams_data[call.team_name].seed # 0
    /\ teams_data[call.team_name].seed \in DOMAIN lookup.SEED_PROBABILITIES
    /\ call.prob_column \in DOMAIN lookup.SEED_PROBABILITIES[teams_data[call.team_name].seed]

\* k of the column: 1 for prob_r32 up to 6 for prob_win.
ColumnRounds(prob_column) ==
    CASE prob_column = "prob_r32" -> 1
      [] prob_column = "prob_r16" -> 2
      [] prob_column = "prob_r8" -> 3
      [] prob_column = "prob_r4" -> 4
      [] prob_column = "prob_r2" -> 5
      [] prob_column = "prob_win" -> 6
      [] OTHER -> 1

\* C19: every call of get_team_probability returns the table's value when
\* the table holds one for the team and column, and otherwise, team or
\* column missing, the uniform default (1/2)^k of the column.
C19_UniformDefault ==
    pc = "lookup" =>
        \A i \in 1..Len(lookup.calls) :
            lookup.calls[i].returned =
                IF ValuePresent(lookup.calls[i])
                THEN teams_data[lookup.calls[i].team_name].columns[lookup.calls[i].prob_column]
                ELSE HalfPower(ColumnRounds(lookup.calls[i].prob_column))

\* C19, amended: a missing value is replaced by the value the seed table
\* holds for the team's seed and the column when there is one, and by the
\* uniform default (1/2)^k otherwise; a value that is present is returned
\* unchanged.
C19_SeedThenUniformDefault ==
    pc = "lookup" =>
        \A i \in 1..Len(lookup.calls) :
            lookup.calls[i].returned =
                IF ValuePresent(lookup.calls[i])
                THEN teams_data[lookup.calls[i].team_name].columns[lookup.calls[i].prob_column]
                ELSE IF SeedValuePresent(lookup.calls[i])
                     THEN lookup.SEED_PROBABILITIES[teams_data[lookup.calls[i].team_name].seed][lookup.calls[i].prob_column]
                     ELSE HalfPower(ColumnRounds(lookup.calls[i].prob_column))

\* Both fallbacks have happened: a column the team lacks got the value of
\* the team's seed, and a team outside the table got the default of
\* prob_win.
C19_FallbacksReturned ==
    /\ pc = "lookup"
    /\ Len(lookup.calls) = 2
    /\ lookup.calls[1].team_name \in DOMAIN teams_data
    /\ ~ValuePresent(lookup.calls[1])
    /\ SeedValuePresent(lookup.calls[1])
    /\ lookup.calls[1].prob_column = "prob_r32"
    /\ lookup.calls[1].returned = 48
    /\ lookup.calls[2].team_name \notin DOMAIN teams_data
    /\ lookup.calls[2].prob_column = "prob_win"
    /\ lookup.calls[2].returned = 1

----------------------------------------------------------------------------
\* Properties of accumulate_results (SpecAccumulate)

\* A dict as the map from its keys to their values, whatever the order in
\* which the keys were inserted.
DictAsMap(d) == {<<d[k].k, d[k].v>> : k \in 1..Len(d)}

\* The results of accumulate_results with the raw outcome dicts as maps.
ResultsAsMaps(acc) ==
    [total_probability_sum |-> acc.total_probability_sum,
     win_probability_sum |-> acc.win_probability_sum,
     lose_probability_sum |-> acc.lose_probability_sum,
     place_probability_sum |-> acc.place_probability_sum,
     raw_winning_outcomes |->
         [name \in DOMAIN acc.raw_winning_outcomes |-> DictAsMap(acc.raw_winning_outcomes[name])],
     raw_losing_outcomes |->
         [name \in DOMAIN acc.raw_losing_outcomes |-> DictAsMap(acc.raw_losing_outcomes[name])]]

\* C20: the total mass, the win, lose and place masses of every participant
\* and the raw winning and losing outcome maps that accumulate_results
\* returns for the entries taken in any order are those it returns for the
\* entries in list order.
C20_AccumulateOrderIndependent ==
    pc = "step5" =>
        ResultsAsMaps(sums) =
            ResultsAsMaps(accumulate_results(outcome_strings, outcome_probabilities,
                              ranking.winners, ranking.losers, ranking.all_sorted_scores,
                              <<1, 2>>))

\* Three entries were accumulated last to first: two outcomes of different
\* mass won by the same participant, one of them sampled twice.
C20_AccumulatedReversed ==
    /\ pc = "step5"
    /\ accumulation.order = <<3, 2, 1>>
    /\ outcome_strings[1] # outcome_strings[2]
    /\ outcome_strings[3] = outcome_strings[1]
    /\ outcome_probabilities[1] = 1
    /\ outcome_probabilities[2] = 2
    /\ ranking.winners = <<1, 1, 1>>
    /\ sums.win_probability_sum[1] = 4
    /\ sums.total_probability_sum = 4

----------------------------------------------------------------------------
\* Properties of a seeded Monte Carlo run (Spec)

\* C21: with the random source fixed, the outcome strings of a Monte Carlo
\* run are determined by the inputs: every run on the same results bracket,
\* budget and random source generates the sequence this run generated.
C21_SeededRunsAgree ==
    (pc \notin {"start", "loaded"} /\ Len(remaining_games) > 0
        /\ max_simulations # NoBudget
        /\ Pow2(Len(remaining_games)) > max_simulations) =>
        \A remaining_teams \in Orderings(find_remaining_teams(results_bracket)) :
            generate_outcome_strings(results_bracket, remaining_games, max_simulations,
                                     remaining_teams, tape) = outcome_strings

----------------------------------------------------------------------------
\* Properties of the champion-stratified outcomes (SpecChampion)

\* C22: the outcome string generated for an alive team, projected onto the
\* results bracket, decides every remaining game, makes the team the winner
\* of every remaining game it plays in, and makes it the champion.
C22_ChampionWinsEveryGame ==
    pc = "champion_projected" =>
        /\ invocation.hypothetical.winner = invocation.team_name
        /\ \A k \in 1..Len(remaining_games) :
              LET game == GameAt(invocation.hypothetical, remaining_games[k][1],
                                 remaining_games[k][2])
              IN /\ game.winner # None
                 /\ invocation.team_name \in {game.team1, game.team2} =>
                        game.winner = invocation.team_name

\* The team in the second slot of the second semifinal, with no game played
\* yet, was made champion against draws that all favoured the first slots.
C22_UnderdogMadeChampion ==
    /\ pc = "champion_projected"
    /\ Len(remaining_games) = 3
    /\ tape = <<1, 1, 1>>
    /\ invocation.team_name = 4
    /\ invocation.outcome = <<"1", "0", "0">>
    /\ invocation.hypothetical.winner = 4

----------------------------------------------------------------------------
\* Properties of the next games (SpecNextGames)

\* The outcome strings that hold a combination of results at the positions
\* of the next games in the remaining-games list.
WithCombination(outcomes, combination) ==
    {i \in 1..Len(outcomes) :
        \A j \in 1..Len(invocation.next_games) :
            outcomes[i][IndexOf(remaining_games, invocation.next_games[j]) + 1]
                = combination[j]}

\* C23: when the 2^k combinations of results of the k next games fit in the
\* number of outcomes asked for, every combination is held by the same
\* positive number of the outcome strings generated.
C23_EveryCombinationEqually ==
    (pc = "next_stratified"
        /\ Pow2(Len(invocation.next_games)) <= invocation.num_outcomes) =>
        \E per_combination \in 1..invocation.num_outcomes :
            \A combination \in BinaryStrings(Len(invocation.next_games)) :
                Cardinality(WithCombination(invocation.outcomes, combination))
                    = per_combination

\* Two next games among five remaining ones, five outcomes asked for: one
\* outcome string for each of the four combinations.
C23_FourCombinations ==
    /\ pc = "next_stratified"
    /\ Len(remaining_games) = 5
    /\ Len(invocation.next_games) = 2
    /\ invocation.num_outcomes = 5
    /\ Len(invocation.outcomes) = 4
    /\ tape = <<1, 0, 1>>


\* The games of a bracket, as <<round, index>>, in round-then-index order.
GamePositions(bracket) ==
    Flatten([r \in ROUND_KEYS |-> [i \in 1..Len(bracket.rounds[r]) |-> <<r, i - 1>>]])

\* A game is playable: both teams known, no winner.
IsPlayable(bracket, position) ==
    /\ GameAt(bracket, position[1], position[2]).team1 # None
    /\ GameAt(bracket, position[1], position[2]).team2 # None
    /\ GameAt(bracket, position[1], position[2]).winner = None

\* The two games that feed a game past round 1 are in the bracket and have
\* winners.
FeedersDecided(bracket, position) ==
    \/ position[1] = 1
    \/ /\ 2 * position[2] + 1 < Len(bracket.rounds[position[1] - 1])
       /\ GameAt(bracket, position[1] - 1, 2 * position[2]).winner # None
       /\ GameAt(bracket, position[1] - 1, 2 * position[2] + 1).winner # None

\* Every game find_next_games returned is in the remaining-games list.
NextGamesRemain ==
    \A k \in 1..Len(invocation.next_games) :
        \E j \in 1..Len(remaining_games) : remaining_games[j] = invocation.next_games[k]

\* C24: find_next_games returns exactly the playable games of the results
\* bracket (both teams known, no winner), in round-then-index order, and
\* every game it returns is in the remaining-games list.
C24_NextGamesArePlayable ==
    pc \in {"next_found", "next_stratified"} =>
        /\ invocation.next_games =
               SelectSeq(GamePositions(results_bracket),
                         LAMBDA position : IsPlayable(results_bracket, position))
        /\ NextGamesRemain

\* C24, amended: find_next_games returns exactly the playable games whose
\* feeder games, past round 1, are in the bracket and have winners, in
\* round-then-index order, and every game it returns is in the
\* remaining-games list.
C24_NextGamesArePlayableAndFed ==
    pc \in {"next_found", "next_stratified"} =>
        /\ invocation.next_games =
               SelectSeq(GamePositions(results_bracket),
                         LAMBDA position : /\ IsPlayable(results_bracket, position)
                                           /\ FeedersDecided(results_bracket, position))
        /\ NextGamesRemain

\* In a bracket of 64 teams with two quarterfinals to play, the semifinal
\* whose quarterfinals are played is returned after them.
C24_QuarterfinalsThenSemifinal ==
    /\ pc = "next_found"
    /\ invocation.next_games = << <<4, 2>>, <<4, 3>>, <<5, 0>> >>
    /\ Len(remaining_games) = 5


\* In a results bracket of 64 teams, where the teams of a game past round 1
\* are set by the winners of its feeder games only, the games
\* find_next_games returns are exactly the playable ones.
NextGamesArePlayableInWholeBrackets ==
    results_bracket \in FullResultsBrackets => C24_NextGamesArePlayable


\* The bracket without the game at a position.
WithoutGame(bracket, position) ==
    SetGame(bracket, position[1], position[2], NoGame)

\* The pick for a position, NoGame when the picks round is too short.
PickAt(picks_bracket, position) ==
    IF position[2] >= Len(picks_bracket.rounds[position[1]]) THEN NoGame
    ELSE GameAt(picks_bracket, position[1], position[2])

\* A game is missing, without a pick or without a winner.
Undecided(game, pick_game) ==
    \/ game = NoGame
    \/ pick_game = NoGame
    \/ pick_game.winner = None
    \/ game.winner = None

\* A game of the results has only one team populated.
OneTeam(game) ==
    /\ game # NoGame
    /\ (game.team1 = None) # (game.team2 = None)

\* What the game at a position contributes to compute_score: the score
\* with the game less the score without it.
Contribution(position) ==
    LET without == compute_score(WithoutGame(results_bracket, position),
                                 name_to_bracket[1], teams_data, apply_seed_bonus)
    IN [total_score |-> invocation.full.total_score - without.total_score,
        seed_bonus |-> invocation.full.seed_bonus - without.seed_bonus]

\* What the k-th remaining game contributes to compute_score_delta.
DeltaContribution(k) ==
    invocation.delta
        - compute_score_delta(invocation.hypothetical, name_to_bracket[1], teams_data,
              apply_seed_bonus,
              SubSeq(remaining_games, 1, k - 1)
                  \o SubSeq(remaining_games, k + 1, Len(remaining_games)))

\* C25: a game that is missing, has no pick, has no winner or has only one
\* team populated contributes nothing, neither round points nor bonus, to
\* compute_score and to compute_score_delta.
C25_MalformedContributesNothing ==
    /\ pc \in {"malformed_scored", "malformed_delta"} =>
           \A k \in 1..Len(GamePositions(results_bracket)) :
               LET position == GamePositions(results_bracket)[k]
                   game == GameAt(results_bracket, position[1], position[2])
               IN (Undecided(game, PickAt(name_to_bracket[1], position)) \/ OneTeam(game))
                      => Contribution(position) = [total_score |-> 0, seed_bonus |-> 0]
    /\ pc = "malformed_delta" =>
           \A k \in 1..Len(remaining_games) :
               LET game == GameAt(invocation.hypothetical, remaining_games[k][1],
                                  remaining_games[k][2])
               IN (Undecided(game, PickAt(name_to_bracket[1], remaining_games[k]))
                       \/ OneTeam(game))
                      => DeltaContribution(k) = 0

\* A game that is missing, has no pick or has no winner contributes
\* nothing to either function.
UndecidedContributesNothing ==
    /\ pc \in {"malformed_scored", "malformed_delta"} =>
           \A k \in 1..Len(GamePositions(results_bracket)) :
               LET position == GamePositions(results_bracket)[k]
                   game == GameAt(results_bracket, position[1], position[2])
               IN Undecided(game, PickAt(name_to_bracket[1], position))
                      => Contribution(position) = [total_score |-> 0, seed_bonus |-> 0]
    /\ pc = "malformed_delta" =>
           \A k \in 1..Len(remaining_games) :
               LET game == GameAt(invocation.hypothetical, remaining_games[k][1],
                                  remaining_games[k][2])
               IN Undecided(game, PickAt(name_to_bracket[1], remaining_games[k]))
                      => DeltaContribution(k) = 0

\* A game of the results with one team only earns no upset bonus, and the
\* projection leaves such a remaining game without a winner, so that it
\* adds nothing to compute_score_delta.
OneTeamEarnsNoBonus ==
    /\ pc \in {"malformed_scored", "malformed_delta"} =>
           \A k \in 1..Len(GamePositions(results_bracket)) :
               LET position == GamePositions(results_bracket)[k]
               IN OneTeam(GameAt(results_bracket, position[1], position[2]))
                      => Contribution(position).seed_bonus = 0
    /\ pc = "malformed_delta" =>
           \A k \in 1..Len(remaining_games) :
               OneTeam(GameAt(invocation.hypothetical, remaining_games[k][1],
                              remaining_games[k][2]))
                   => DeltaContribution(k) = 0


\* The total score of the picks in every completion of the undecided games
\* of the results bracket.
CompletionScores ==
    {compute_score(create_hypothetical_bracket(results_bracket, remaining_games,
                                               outcome_string),
                   name_to_bracket[1], teams_data, TRUE).total_score :
        outcome_string \in BinaryStrings(Len(remaining_games))}

\* The score of the picks with the simulation games decided by an outcome.
SimulationScore(outcome) ==
    compute_score(create_simulation_bracket(invocation.optimal_bracket,
                      invocation.build.simulation_games, outcome),
                  name_to_bracket[1], teams_data, TRUE).total_score

\* The outcomes step3_simulate_all enumerates: format(i, '0nb') for every i.
EnumeratedOutcomes ==
    {FormatBinary(i, Len(invocation.build.simulation_games)) :
        i \in 0..(Pow2(Len(invocation.build.simulation_games)) - 1)}

\* The outcomes step3_simulate_all returns.
KeptOutcomes ==
    {invocation.build.max_outcomes[k].k : k \in 1..Len(invocation.build.max_outcomes)}

\* C26: max_score is the largest total score over all completions of the
\* undecided games, and the outcomes step3_simulate_all keeps are exactly
\* the enumerated outcomes with that score.
C26_MaxScoreIsBestCompletion ==
    (pc = "built" /\ invocation.build.raised = "") =>
        /\ invocation.build.optimal.max_score \in CompletionScores
        /\ \A score \in CompletionScores : score <= invocation.build.optimal.max_score
        /\ KeptOutcomes
               = {outcome \in EnumeratedOutcomes :
                     SimulationScore(outcome) = invocation.build.optimal.max_score}

\* With simulation games, the outcomes kept are exactly the enumerated
\* outcomes of the largest score among the enumerated ones, and that score
\* is max_score.
KeptOutcomesAreTheBestEnumerated ==
    (pc = "built" /\ invocation.build.raised = ""
        /\ Len(invocation.build.simulation_games) > 0) =>
        /\ \A outcome \in EnumeratedOutcomes :
               SimulationScore(outcome) <= invocation.build.optimal.max_score
        /\ KeptOutcomes
               = {outcome \in EnumeratedOutcomes :
                     SimulationScore(outcome) = invocation.build.optimal.max_score}
        /\ KeptOutcomes # {}

\* With simulation games, max_score is the largest score of a completion.
MaxScoreIsBestCompletionWhenSimulated ==
    (pc = "built" /\ invocation.build.raised = ""
        /\ Len(invocation.build.simulation_games) > 0) =>
        /\ invocation.build.optimal.max_score \in CompletionScores
        /\ \A score \in CompletionScores : score <= invocation.build.optimal.max_score


\* An outcome string with the other winner in the game of one position.
Flipped(outcome_string, k) ==
    [outcome_string EXCEPT ![k] = IF @ = "1" THEN "0" ELSE "1"]

\* The total score of the picks in the completion an outcome string gives.
CompletionScore(outcome_string) ==
    compute_score(create_hypothetical_bracket(results_bracket, remaining_games,
                                              outcome_string),
                  name_to_bracket[1], teams_data, TRUE).total_score

\* C27: a game step2_mark_dead_paths marks dead cannot affect the score:
\* for every completion of the other undecided games, the total score is
\* the same whichever of its two teams wins the dead game.
C27_DeadGamesDoNotScore ==
    pc \in {"marked", "built"} =>
        \A d \in 1..Len(invocation.dead_games) :
            /\ IndexOf(remaining_games, invocation.dead_games[d]) >= 0
            /\ \A outcome_string \in BinaryStrings(Len(remaining_games)) :
                   CompletionScore(outcome_string)
                       = CompletionScore(Flipped(outcome_string,
                             IndexOf(remaining_games, invocation.dead_games[d]) + 1))

\* Witness of C27: the final is marked dead (the participant's champion
\* lost its semifinal), both finalists can still be either semifinal's
\* winner, and the participant still scores on the other semifinal.
C27_DeadFinal ==
    /\ pc = "marked"
    /\ invocation.dead_games = << <<6, 0>> >>
    /\ Len(remaining_games) = 2
    /\ \E outcome_string \in BinaryStrings(Len(remaining_games)) :
           /\ CompletionScore(outcome_string) > 0
           /\ create_hypothetical_bracket(results_bracket, remaining_games,
                  outcome_string).winner
              # create_hypothetical_bracket(results_bracket, remaining_games,
                    Flipped(outcome_string, 2)).winner


\* The concrete outcomes a pattern denotes: every X stands for both values.
Expansions(pattern) ==
    {outcome \in BinaryStrings(Len(pattern)) :
        \A k \in 1..Len(pattern) : pattern[k] = "X" \/ pattern[k] = outcome[k]}

\* C28: the patterns merge_outcomes returns for a set of distinct outcome
\* strings over {0,1} denote pairwise disjoint sets of concrete outcomes
\* whose union is exactly the input set.
C28_MergedPatternsPartitionInput ==
    pc = "merged" =>
        /\ \A i, j \in 1..Len(merging.merged) :
               i # j => Expansions(merging.merged[i].k)
                            \cap Expansions(merging.merged[j].k) = {}
        /\ UNION {Expansions(merging.merged[i].k) : i \in 1..Len(merging.merged)}
               = {merging.outcomes_with_probs[i].k :
                     i \in 1..Len(merging.outcomes_with_probs)}

\* Witness of C28: five outcomes of three games merged into two patterns,
\* one of them with two X.
C28_FiveOutcomesTwoPatterns ==
    /\ pc = "merged"
    /\ Len(merging.outcomes_with_probs) = 5
    /\ Len(merging.merged) = 2
    /\ \E i \in 1..Len(merging.merged) :
           Cardinality(Expansions(merging.merged[i].k)) = 4


\* The sum of the values of a raw outcome map.
RawMass(raw_outcomes) ==
    SumSeq([k \in 1..Len(raw_outcomes) |-> raw_outcomes[k].v])

\* The keys of a raw outcome map.
RawKeys(raw_outcomes) ==
    {raw_outcomes[k].k : k \in 1..Len(raw_outcomes)}

\* C29: after accumulate_results, also with repeated outcome strings, the
\* win mass of every participant is the sum of the values of the
\* participant's raw winning map and no outcome string is a key of the raw
\* winning maps of two participants; the same for the lose mass and the
\* raw losing maps.
C29_MassesMatchRawMaps ==
    pc \in {"step5", "normalized"} =>
        /\ \A name \in DOMAIN sums.win_probability_sum :
               /\ sums.win_probability_sum[name] = RawMass(sums.raw_winning_outcomes[name])
               /\ sums.lose_probability_sum[name] = RawMass(sums.raw_losing_outcomes[name])
        /\ \A name, other \in DOMAIN sums.win_probability_sum :
               name # other =>
                   /\ RawKeys(sums.raw_winning_outcomes[name])
                          \cap RawKeys(sums.raw_winning_outcomes[other]) = {}
                   /\ RawKeys(sums.raw_losing_outcomes[name])
                          \cap RawKeys(sums.raw_losing_outcomes[other]) = {}

\* Witness of C29: an outcome string of positive weight was accumulated
\* twice, and two participants have outcomes they win.
C29_RepeatedOutcomeAccumulated ==
    /\ pc = "step5"
    /\ \E i, j \in 1..Len(outcome_strings) :
           /\ i # j
           /\ outcome_strings[i] = outcome_strings[j]
           /\ outcome_probabilities[i] > 0
    /\ \A name \in DOMAIN sums.win_probability_sum :
           sums.raw_winning_outcomes[name] # <<>>


\* The sum of a function of the participants.
RECURSIVE SumOver(_, _)
SumOver(f, names) ==
    IF names = {} THEN 0
    ELSE LET name == CHOOSE n \in names : TRUE
         IN f[name] + SumOver(f, names \ {name})

\* Twice the sum of the reported average places, as a numerator over the
\* common denominator of the outputs.
AveragePlacesTwice ==
    2 * SumOver([name \in DOMAIN outputs.average_places |->
                    outputs.average_places[name].num],
                DOMAIN outputs.average_places)

\* The place masses summed over the P participants are P(P+1)/2 times the
\* total observed weight.
PlaceMassesSum ==
    pc \in {"step5", "normalized"} =>
        2 * SumOver(sums.place_probability_sum, DOMAIN sums.place_probability_sum)
            = Len(name_to_bracket) * (Len(name_to_bracket) + 1)
                  * sums.total_probability_sum

\* C30: every outcome gives the places 1..P to one participant each, so
\* the place masses summed over the participants are P(P+1)/2 times the
\* total observed weight, and the reported average places sum to P(P+1)/2.
C30_PlacesSumToTriangle ==
    /\ PlaceMassesSum
    /\ pc \in {"normalized", "done"} =>
           \A name \in DOMAIN outputs.average_places :
               AveragePlacesTwice
                   = Len(name_to_bracket) * (Len(name_to_bracket) + 1)
                         * outputs.average_places[name].den

\* The reported average places sum to P(P+1)/2 whenever the total observed
\* weight is positive, and when the tournament is over.
AveragePlacesSumWhenWeighted ==
    (\/ pc = "normalized" /\ sums.total_probability_sum > 0
     \/ pc = "done" /\ Len(remaining_games) = 0) =>
        \A name \in DOMAIN outputs.average_places :
            AveragePlacesTwice
                = Len(name_to_bracket) * (Len(name_to_bracket) + 1)
                      * outputs.average_places[name].den

=============================================================================
